---------------------------- MODULE Spec2Model ----------------------------
(***************************************************************************)
(* Model of image/raspbian/init.c, the initramfs /init of the TNG Base    *)
(* Raspberry Pi CMX image.                                                 *)
(*                                                                         *)
(* Bytes are integers 0..255; strings and file contents are sequences of   *)
(* bytes.  The filesystem maps a path to a file (metadata, data and        *)
(* whether the data has reached durable storage).  Every function of       *)
(* init.c is a set of actions over its program position pc; the            *)
(* environment's answers (errno results, short transfers, power loss) are  *)
(* drawn with \E.                                                          *)
(***************************************************************************)
EXTENDS Integers, Sequences, FiniteSets, TLC

VARIABLES
    fs,     \* the filesystem: path -> file
    pc,     \* position of the program
    upd,    \* frame of update_file, with the history of the call before it
    eeprom,         \* static EEPROM eeprom: its sizeof(EEPROM) bytes
    eeprom_valid,   \* static bool eeprom_valid
    rp,     \* frame of replace_password
    inp,    \* the password database the run started with, by its parts
    rom,    \* the bytes of the EEPROM chip behind /dev/i2c-1
    img,    \* what rom was made from: a record, or one with a bit flipped
    rd,     \* frame of read_eeprom
    mnt,    \* frame of robust_mount
    hw,     \* the hardware clock, the system clock, the Ethernet chip's store
    rtc,    \* frame of rtc_hctosys
    eth,    \* frame of configure_ethernet
    mn      \* frame of main, with the steps it has executed

vars == <<fs, pc, upd, eeprom, eeprom_valid, rp, inp, rom, img, rd, mnt, hw, rtc, eth, mn>>

\* what the actions of update_file leave alone
notUpd == <<eeprom, eeprom_valid, rp, inp, rom, img, rd, mnt, hw, rtc, eth, mn>>

\* what the actions of replace_password leave alone
notRp == <<upd, eeprom, eeprom_valid, inp, rom, img, rd, mnt, hw, rtc, eth, mn>>

\* what the actions of read_eeprom leave alone
notRd == <<fs, upd, rp, inp, rom, img, mnt, hw, rtc, eth, mn>>

\* what the actions of robust_mount leave alone
notMnt == <<fs, upd, eeprom, eeprom_valid, rp, inp, rom, img, rd, hw, rtc, eth, mn>>

\* what the actions of rtc_hctosys leave alone
notRtc == <<fs, upd, eeprom, eeprom_valid, rp, inp, rom, img, rd, mnt, eth, mn>>

\* what the actions of configure_ethernet leave alone
notEth == <<fs, upd, eeprom, eeprom_valid, rp, inp, rom, img, rd, mnt, rtc, mn>>

\* what the steps of main and of panic leave alone
notMain == <<fs, upd, eeprom, eeprom_valid, rp, inp, rom, img, rd, mnt, hw, rtc, eth>>

(***************************************************************************)
(* Generic helpers                                                         *)
(***************************************************************************)
Min(a, b) == IF a < b THEN a ELSE b

Prefix(s, n) == SubSeq(s, 1, Min(n, Len(s)))

(***************************************************************************)
(* Files                                                                   *)
(***************************************************************************)
\* <sys/stat.h> file type bits and the permission bits 0444 and 0644
S_IFREG == 32768
S_IFDIR == 16384
MODE_0444 == 292
MODE_0644 == 420

NoFile == [exists |-> FALSE, mode |-> 0, uid |-> 0, gid |-> 0,
           data |-> <<>>, synced |-> TRUE]

RegFile(mode, uid, gid, data) ==
    [exists |-> TRUE, mode |-> mode, uid |-> uid, gid |-> gid,
     data |-> data, synced |-> TRUE]

IsDir(f) == f.exists /\ f.mode \div 4096 = S_IFDIR \div 4096

\* the file mode creation mask of the process: 022, which process 1 has
\* from the kernel and the program never changes
UMASK == 18

\* a & ~b
RECURSIVE AndNot(_, _)
AndNot(a, b) ==
    IF a = 0 THEN 0
    ELSE (a % 2) * (1 - (b % 2)) + 2 * AndNot(a \div 2, b \div 2)

\* open(path, O_CREAT | O_TRUNC | O_WRONLY, mode) by root: a new file gets the
\* mode without the bits of the mask and owner 0:0, an existing one keeps
\* its metadata; the data is cut to nothing either way and nothing of it is
\* durable yet.
OpenCreatTrunc(f, mode) ==
    IF f.exists
    THEN [f EXCEPT !.data = <<>>, !.synced = FALSE]
    ELSE [exists |-> TRUE, mode |-> S_IFREG + AndNot(mode % 4096, UMASK),
          uid |-> 0, gid |-> 0, data |-> <<>>, synced |-> FALSE]

\* <sys/stat.h> set-user-ID, set-group-ID and group-execute bits
S_ISUID == 2048
S_ISGID == 1024
S_IXGRP == 8

\* the privilege bits a change of owner takes from a file that is no
\* directory, for root as for everyone: set-user-ID always, set-group-ID when
\* the group may execute the file
KilledBits(mode) ==
    IF mode \div 4096 = S_IFDIR \div 4096 THEN 0
    ELSE S_ISUID + (IF (mode \div S_IXGRP) % 2 = 1 THEN S_ISGID ELSE 0)

\* fchown(fd, uid, gid)
Fchown(f, uid, gid) ==
    [f EXCEPT !.uid = uid, !.gid = gid, !.mode = AndNot(@, KilledBits(@))]

Fchmod(f, mode) == [f EXCEPT !.mode = (@ \div 4096) * 4096 + (mode % 4096)]

\* write(fd, buffer, n) appends at the descriptor's offset
WriteData(f, bytes) == [f EXCEPT !.data = @ \o bytes, !.synced = FALSE]

\* what fsync may return: 0, or -1 for an error
FsyncResults == {0, -1}

\* fsync(fd) returning rc: the data is durable when it returned 0
Fsync(f, rc) == IF rc = 0 THEN [f EXCEPT !.synced = TRUE] ELSE f

\* rename(2): the target becomes the source file, the source name is gone
RenameFs(files, from, to) == [files EXCEPT ![to] = files[from], ![from] = NoFile]

\* what a power loss leaves of a file: data that was not forced to durable
\* storage survives only up to some point
AfterPowerLoss(f, cut) ==
    IF f.exists /\ ~f.synced
    THEN [f EXCEPT !.data = Prefix(@, cut), !.synced = TRUE]
    ELSE f

(***************************************************************************)
(* create_file and robust_write                                            *)
(***************************************************************************)
CreateIo == {"ok", "open_err", "fchown_err", "fchmod_err"}

\* create_file(path, uid, gid, mode): the file it leaves at path when the
\* environment answers io
create_file(f, uid, gid, mode, io) ==
    IF io = "open_err" THEN f
    ELSE IF io = "fchown_err" THEN OpenCreatTrunc(f, mode)
    ELSE IF io = "fchmod_err" THEN Fchown(OpenCreatTrunc(f, mode), uid, gid)
    ELSE Fchmod(Fchown(OpenCreatTrunc(f, mode), uid, gid), mode)

\* robust_write(path, fd, buffer, buffer_length) with write() returning n
\* (-1: error, nothing written): the file afterwards
robust_write(f, buffer, n) ==
    IF n < 0 THEN f ELSE WriteData(f, Prefix(buffer, n))

\* robust_write panics unless the whole buffer was written
robust_write_ok(buffer, n) == n >= Len(buffer)

(***************************************************************************)
(* update_file                                                             *)
(***************************************************************************)
UID_PATH == "/mnt/etc/tng-base-uid"

UpdPaths == {UID_PATH}

\* the three files main updates
IdentityPaths ==
    {"/mnt/etc/tng-base-production-date", UID_PATH, "/mnt/etc/tng-base-hostname"}

\* snprintf(tmp_path, sizeof(tmp_path), "%s.tmp", path)
TmpPath(path) == path \o ".tmp"

\* "/mnt/etc/shadow", SHADOW_PATH"-" and SHADOW_PATH"+"
SHADOW_PATH == "/mnt/etc/shadow"
SHADOW_BACKUP_PATH == SHADOW_PATH \o "-"
SHADOW_TMP_PATH == SHADOW_PATH \o "+"

Paths == UpdPaths \cup {TmpPath(p) : p \in UpdPaths}
           \cup {SHADOW_PATH, SHADOW_BACKUP_PATH, SHADOW_TMP_PATH}
           \cup IdentityPaths \cup {TmpPath(p) : p \in IdentityPaths}

\* contents update_file is called with (main passes newline-terminated text)
Contents == {<<65, 10>>, <<66, 10>>, <<65, 66, 10>>}

CheckIo == {"ok", "stat_err", "open_err", "read_err", "short_read"}

\* the stat() test of update_file: the file is a regular file with mode 0444,
\* owner 0:0 and the size of the content
StatMatches(f, content) ==
    /\ f.exists
    /\ f.mode = S_IFREG + MODE_0444
    /\ f.uid = 0
    /\ f.gid = 0
    /\ Len(f.data) = Len(content)

\* mutant of Memcmp0: the sense of the comparison is inverted
Memcmp0Inverted(buffer, content) == buffer # content

\* memcmp(buffer, content, content_length) == 0
Memcmp0(buffer, content) == buffer = content

\* the first half of update_file: TRUE when it returns without updating
UpToDate(f, content, io) ==
    /\ io = "ok"
    /\ StatMatches(f, content)
    /\ Memcmp0(f.data, content)

UpdIdle == [path |-> UID_PATH, content |-> <<>>, old |-> NoFile,
            creates |-> 0, renames |-> 0, fault |-> FALSE, io |-> "ok",
            matched |-> FALSE,
            returned |-> 0, prev |-> <<>>, prevRenames |-> 0]

\* the call returned (returned counts the calls that did, up to two)
UpdReturned(u) == [u EXCEPT !.returned = Min(@ + 1, 2)]

\* update_file(path, content, content_length) is called.  old is the file at
\* path at the call, matched whether it already is the wanted file, and
\* prev/prevRenames describe the call before this one.
UpdateFileCall(path, content) ==
    /\ pc = "idle"
    /\ upd' = [upd EXCEPT !.path = path, !.content = content, !.old = fs[path],
                          !.creates = 0, !.renames = 0, !.fault = FALSE,
                          !.io = "ok",
                          !.matched = StatMatches(fs[path], content)
                                        /\ fs[path].data = content,
                          !.returned = IF path = upd.path THEN @ ELSE 0,
                          !.prev = upd.content,
                          !.prevRenames = upd.renames]
    /\ pc' = "uf_check"
    /\ UNCHANGED <<fs, notUpd>>

UpdateFileCheck ==
    /\ pc = "uf_check"
    /\ \E io \in CheckIo :
         /\ io \in {"open_err", "read_err", "short_read"}
              => StatMatches(fs[upd.path], upd.content)
         /\ IF UpToDate(fs[upd.path], upd.content, io)
            THEN /\ pc' = "idle"
                 /\ upd' = UpdReturned(upd)
            ELSE /\ pc' = "uf_create"
                 /\ upd' = [upd EXCEPT !.fault = (io # "ok"), !.io = io]
    /\ UNCHANGED <<fs, notUpd>>

UpdateFileCreate ==
    /\ pc = "uf_create"
    /\ \E io \in CreateIo :
         /\ fs' = [fs EXCEPT ![TmpPath(upd.path)] = create_file(@, 0, 0, MODE_0444, io)]
         /\ pc' = IF io = "ok" THEN "uf_write" ELSE "panic"
         /\ upd' = [upd EXCEPT !.creates = IF io = "open_err" THEN @ ELSE @ + 1]
    /\ UNCHANGED notUpd

UpdateFileWrite ==
    /\ pc = "uf_write"
    /\ \E n \in -1 .. Len(upd.content) :
         /\ fs' = [fs EXCEPT ![TmpPath(upd.path)] = robust_write(@, upd.content, n)]
         /\ pc' = IF robust_write_ok(upd.content, n) THEN "uf_fsync" ELSE "panic"
    /\ UNCHANGED <<upd, notUpd>>

\* fsync(fd), whose result is not looked at, and close(fd)
UpdateFileFsync ==
    /\ pc = "uf_fsync"
    /\ \E rc \in FsyncResults :
         fs' = [fs EXCEPT ![TmpPath(upd.path)] = Fsync(@, rc)]
    /\ pc' = "uf_rename"
    /\ UNCHANGED <<upd, notUpd>>

UpdateFileRename ==
    /\ pc = "uf_rename"
    /\ \E io \in {"ok", "rename_err"} :
         /\ IsDir(fs[upd.path]) => io = "rename_err"
         /\ IF io = "ok"
            THEN /\ fs' = RenameFs(fs, TmpPath(upd.path), upd.path)
                 /\ upd' = UpdReturned([upd EXCEPT !.renames = @ + 1])
                 /\ pc' = "idle"
            ELSE /\ UNCHANGED <<fs, upd>>
                 /\ pc' = "panic"
    /\ UNCHANGED notUpd

\* how many bytes of unsynced data a power loss may leave
MaxCut == 3

\* power fails: the program is gone, unsynced data is cut somewhere
PowerLoss ==
    /\ pc # "off"
    /\ \E cut \in 0 .. MaxCut :
         fs' = [p \in DOMAIN fs |-> AfterPowerLoss(fs[p], cut)]
    /\ pc' = "off"
    /\ UNCHANGED <<upd, eeprom, eeprom_valid, rp, inp, rom, img, rd, mnt, hw, rtc, eth, mn>>

\* what may be at the target path when update_file is called
InitTargets ==
    {NoFile, RegFile(S_IFDIR + 493, 0, 0, <<>>)}
      \cup {RegFile(S_IFREG + m, u, 0, c) :
               m \in {MODE_0444, MODE_0644}, u \in {0, 1000}, c \in Contents}


(***************************************************************************)
(* The EEPROM record: EEPROM_Header and EEPROM_DataV1, packed              *)
(***************************************************************************)
\* sizeof(EEPROM_Header): magic_number 4, checksum 4, data_length 2,
\* data_version 1
HEADER_SIZE == 11
\* sizes of the fields of EEPROM_DataV1
DATE_SIZE == 4
UID_SIZE == 7
HOSTNAME_SIZE == 65
PASSWORD_SIZE == 107
ETHERNET_CONFIG_LENGTH == 256

DATA_V1_SIZE == DATE_SIZE + UID_SIZE + HOSTNAME_SIZE + PASSWORD_SIZE
                  + ETHERNET_CONFIG_LENGTH

EEPROM_SIZE == HEADER_SIZE + DATA_V1_SIZE

\* offsets of the fields in the bytes of an EEPROM (the first byte is at 0)
OFF_CHECKSUM == 4
OFF_LENGTH == 8
OFF_VERSION == 10
OFF_DATE == HEADER_SIZE
OFF_UID == OFF_DATE + DATE_SIZE
OFF_HOSTNAME == OFF_UID + UID_SIZE
OFF_PASSWORD == OFF_HOSTNAME + HOSTNAME_SIZE
OFF_ETHERNET == OFF_PASSWORD + PASSWORD_SIZE

Zeros(n) == [i \in 1 .. n |-> 0]

\* little-endian integer of the n bytes at offset off
LeInt(bytes, off, n) ==
    LET RECURSIVE le(_)
        le(k) == IF k = n THEN 0 ELSE bytes[off + k + 1] + 256 * le(k + 1)
    IN le(0)

data_version(e) == e[OFF_VERSION + 1]
data_length(e) == LeInt(e, OFF_LENGTH, 2)

\* the C string in a char array: the bytes before its first NUL (all of them
\* when there is none)
CStr(bytes) ==
    LET nul == {i \in 1 .. Len(bytes) : bytes[i] = 0}
    IN IF nul = {} THEN bytes
       ELSE SubSeq(bytes, 1, (CHOOSE i \in nul : \A j \in nul : i <= j) - 1)

Field(e, off, n) == SubSeq(e, off + 1, off + n)

\* eeprom.data_v1.encrypted_password as a C string
encrypted_password(e) == CStr(Field(e, OFF_PASSWORD, PASSWORD_SIZE))

\* a string in a char array of n bytes, NUL-padded
Padded(str, n) == str \o Zeros(n - Len(str))

\* the bytes of EEPROM_DataV1 with these fields
DataV1(date, uid, hostname, password, ethernet) ==
    date \o Padded(uid, UID_SIZE) \o Padded(hostname, HOSTNAME_SIZE)
         \o Padded(password, PASSWORD_SIZE) \o ethernet

(***************************************************************************)
(* zlib crc32.  A uint32_t is the tuple of its four bytes, least           *)
(* significant first, as it lies in the EEPROM and in memory.              *)
(***************************************************************************)
XorBit(a, b) == IF a = b THEN 0 ELSE 1

XorNibble ==
    [a \in 0 .. 15 |-> [b \in 0 .. 15 |->
        XorBit(a % 2, b % 2)
          + 2 * XorBit((a \div 2) % 2, (b \div 2) % 2)
          + 4 * XorBit((a \div 4) % 2, (b \div 4) % 2)
          + 8 * XorBit(a \div 8, b \div 8)]]

\* a ^ b on bytes and on uint32_t
Xor8(a, b) == XorNibble[a % 16][b % 16] + 16 * XorNibble[a \div 16][b \div 16]
Xor32(a, b) == <<Xor8(a[1], b[1]), Xor8(a[2], b[2]), Xor8(a[3], b[3]),
                 Xor8(a[4], b[4])>>

\* the reflected polynomial 0xEDB88320 and 0xFFFFFFFF
CRC_POLY == <<32, 131, 184, 237>>
MASK32 == <<255, 255, 255, 255>>
ZERO32 == <<0, 0, 0, 0>>

\* c >> 1
Shr1(c) == <<c[1] \div 2 + 128 * (c[2] % 2), c[2] \div 2 + 128 * (c[3] % 2),
             c[3] \div 2 + 128 * (c[4] % 2), c[4] \div 2>>

\* zlib's crc_table[n]
CrcTable ==
    LET step(c) == IF c[1] % 2 = 1 THEN Xor32(CRC_POLY, Shr1(c)) ELSE Shr1(c)
    IN [n \in 0 .. 255 |->
          step(step(step(step(step(step(step(step(<<n, 0, 0, 0>>))))))))]

\* one byte into the (complemented) register: table[(c ^ byte) & 0xff] ^ (c >> 8)
CrcStep(c, byte) == Xor32(CrcTable[Xor8(c[1], byte)], <<c[2], c[3], c[4], 0>>)

\* the bytes lo .. hi of a buffer into the register, in order
RECURSIVE CrcRun(_, _, _, _)
CrcRun(bytes, c, lo, hi) ==
    IF lo > hi THEN c
    ELSE IF lo = hi THEN CrcStep(c, bytes[lo])
    ELSE CHOOSE r \in
           {CrcRun(bytes, half[2], half[1] + 1, hi) :
              half \in {<<mid, CrcRun(bytes, c, lo, mid)>> :
                          mid \in {(lo + hi) \div 2}}} : TRUE

\* crc32(crc, bytes, Len(bytes)); c and b are crc and bytes, evaluated once
crc32(crc, bytes) ==
    CHOOSE r \in {Xor32(CrcRun(b, Xor32(c, MASK32), 1, Len(b)), MASK32) :
                     c \in {crc}, b \in {bytes}} : TRUE

\* the n bytes of an unsigned integer, least significant first
LeBytes(v, n) == [k \in 1 .. n |-> (v \div (256 ^ (k - 1))) % 256]

\* EEPROM_MAGIC_NUMBER 0x21474E54 in the EEPROM: "TNG!"
EEPROM_MAGIC == <<84, 78, 71, 33>>

\* the checksum of a record: over data_length, data_version and the data
RecordChecksum(length, version, data) ==
    crc32(crc32(crc32(ZERO32, LeBytes(length, 2)), <<version>>), data)

\* the bytes of a record in the EEPROM: the header, then the data
RecordImage(checksum, length, version, data) ==
    EEPROM_MAGIC \o checksum \o LeBytes(length, 2) \o <<version>> \o data

\* a well-formed record of a version holding these data
GoodImage(version, data) ==
    RecordImage(RecordChecksum(Len(data), version, data), Len(data), version, data)

\* sample values of the fields: 0x20200827, "AB1234", "tng-1", and a
\* configuration of the Ethernet chip
SampleDate == <<39, 8, 32, 32>>
SampleUid == <<65, 66, 49, 50, 51, 52>>
SampleHostname == <<116, 110, 103, 45, 49>>
SampleEthernet == [i \in 1 .. ETHERNET_CONFIG_LENGTH |-> IF i = 1 THEN 165 ELSE i % 256]

\* device passwords a record may carry: "$6$xy$Q" and "Zk9"
Passwords == {<<36, 54, 36, 120, 121, 36, 81>>, <<90, 107, 57>>}

\* what the static eeprom holds after a record with this password was read
StoredRecord(password) ==
    SubSeq(GoodImage(1, DataV1(SampleDate, SampleUid, SampleHostname,
                               password, SampleEthernet)), 1, EEPROM_SIZE)


(***************************************************************************)
(* C strings: positions count from 1, 0 stands for NULL                    *)
(***************************************************************************)
Least(S) == CHOOSE i \in S : \A j \in S : i <= j
Greatest(S) == CHOOSE i \in S : \A j \in S : i >= j

\* position of the NUL that ends the string starting at from
StrEnd(buf, from) == Least({i \in from .. Len(buf) : buf[i] = 0})

\* strncmp(buf + from, lit, strlen(lit)) == 0
Strncmp0(buf, from, lit) ==
    /\ from + Len(lit) - 1 <= Len(buf)
    /\ \A k \in 1 .. Len(lit) : buf[from + k - 1] = lit[k]

\* strchr(buf + from, c)
Strchr(buf, from, c) ==
    LET hit == {i \in from .. StrEnd(buf, from) - 1 : buf[i] = c}
    IN IF hit = {} THEN 0 ELSE Least(hit)

\* strrchr(buf + from, c)
Strrchr(buf, from, c) ==
    LET hit == {i \in from .. StrEnd(buf, from) - 1 : buf[i] = c}
    IN IF hit = {} THEN 0 ELSE Greatest(hit)

\* strstr(buf + from, needle)
Strstr(buf, from, needle) ==
    LET hit == {i \in from .. StrEnd(buf, from) - Len(needle) :
                   Strncmp0(buf, i, needle)}
    IN IF hit = {} THEN 0 ELSE Least(hit)

\* mutant of Strcmp0: the sense of the comparison is inverted
Strcmp0Inverted(a, b) == a # b

\* strcmp(a, b) == 0
Strcmp0(a, b) == a = b

(***************************************************************************)
(* crypt_r                                                                 *)
(***************************************************************************)
NULL == <<-1>>

\* the characters of the crypt alphabet [./0-9A-Za-z]
IsSaltChar(c) == c \in (46 .. 57) \cup (65 .. 90) \cup (97 .. 122)

\* the value 0 .. 63 a character of the crypt alphabet stands for, 64 for a
\* character that is not of it
Atoi64(c) ==
    IF c \in 46 .. 57 THEN c - 46
    ELSE IF c \in 65 .. 90 THEN c - 53
    ELSE IF c \in 97 .. 122 THEN c - 59
    ELSE 64

\* The digests are the library's: DES, MD4, MD5, SHA-1, SHA-256, SHA-512,
\* Blowfish, scrypt and yescrypt are not computed here.  LibraryDigests holds
\* what libxcrypt 4.4.33 gives, as the characters of the digest, for the
\* messages hashed in the specifications and for one or more of every
\* scheme; of is the scheme's tag and what the scheme hashes, as crypt_r
\* puts it together
LibraryDigests ==
    {
     \* crypt("default-", "ab")
     [of |-> <<0, 97, 98, -1, 100, 101, 102, 97, 117, 108, 116, 45>>,
      text |-> <<75, 114, 83, 54, 52, 55, 46, 89, 116, 97, 73>>],
     \* crypt("default-", "cd")
     [of |-> <<0, 99, 100, -1, 100, 101, 102, 97, 117, 108, 116, 45>>,
      text |-> <<47, 122, 119, 115, 67, 122, 87, 83, 79, 74, 65>>],
     \* crypt("12345678", "ab")
     [of |-> <<0, 97, 98, -1, 49, 50, 51, 52, 53, 54, 55, 56>>,
      text |-> <<49, 105, 66, 97, 46, 78, 46, 85, 50, 67, 54>>],
     \* crypt("9", "1i")
     [of |-> <<0, 49, 105, -1, 57, 0, 0, 0, 0, 0, 0, 0>>,
      text |-> <<76, 47, 89, 82, 88, 83, 51, 107, 108, 116, 50>>],
     \* crypt("90123456", "1i")
     [of |-> <<0, 49, 105, -1, 57, 48, 49, 50, 51, 52, 53, 54>>,
      text |-> <<109, 122, 71, 109, 122, 113, 89, 105, 78, 86, 119>>],
     \* crypt("7", "mz")
     [of |-> <<0, 109, 122, -1, 55, 0, 0, 0, 0, 0, 0, 0>>,
      text |-> <<88, 48, 108, 84, 53, 99, 113, 90, 118, 112, 107>>],
     \* crypt("", "ab")
     [of |-> <<0, 97, 98, -1, 0, 0, 0, 0, 0, 0, 0, 0>>,
      text |-> <<109, 70, 49, 81, 72, 52, 80, 69, 114, 46, 69>>],
     \* crypt("a", "ab")
     [of |-> <<0, 97, 98, -1, 97, 0, 0, 0, 0, 0, 0, 0>>,
      text |-> <<120, 120, 66, 55, 72, 108, 73, 101, 99, 107, 85>>],
     \* crypt("default-tng-password", "$6$ab")
     [of |-> <<54, 97, 98, -1, 53, 48, 48, 48, -1, 100, 101, 102, 97, 117, 108, 116, 45,
             116, 110, 103, 45, 112, 97, 115, 115, 119, 111, 114, 100>>,
      text |-> <<122, 112, 118, 112, 98, 73, 106, 88, 74, 81, 110, 101, 117, 105, 81, 113,
               79, 73, 89, 85, 49, 108, 84, 103, 46, 67, 82, 122, 106, 107, 108, 90, 98,
               79, 111, 119, 73, 47, 67, 74, 117, 97, 111, 90, 54, 97, 115, 54, 111, 82,
               69, 68, 98, 101, 119, 100, 50, 49, 87, 65, 72, 120, 114, 88, 111, 77,
               122, 120, 118, 88, 114, 74, 70, 105, 118, 113, 113, 118, 87, 109, 108,
               74, 65, 118, 79, 49>>],
     \* crypt("default-tng-password", "$6$rounds=5000$a-b")
     [of |-> <<54, 97, 45, 98, -1, 53, 48, 48, 48, -1, 100, 101, 102, 97, 117, 108, 116,
             45, 116, 110, 103, 45, 112, 97, 115, 115, 119, 111, 114, 100>>,
      text |-> <<77, 109, 77, 105, 84, 105, 68, 82, 98, 78, 99, 56, 70, 88, 75, 50, 107,
               104, 108, 102, 67, 46, 99, 68, 65, 116, 99, 46, 108, 119, 52, 97, 51, 66,
               57, 65, 49, 84, 66, 83, 69, 106, 69, 106, 75, 113, 55, 78, 73, 113, 73,
               89, 79, 117, 100, 46, 118, 119, 46, 83, 49, 105, 111, 76, 56, 67, 65, 71,
               52, 84, 69, 56, 85, 66, 77, 47, 100, 84, 68, 89, 79, 68, 116, 102, 116,
               49>>],
     \* crypt("default-tng-password", "$y$j9T$abcd")
     [of |-> <<121, 97, 98, 99, 100, -1, 47, 12, 32, 0, 0, 0, 1, 0, 0, 0, 0, 0, 0, 0, -1,
             100, 101, 102, 97, 117, 108, 116, 45, 116, 110, 103, 45, 112, 97, 115, 115,
             119, 111, 114, 100>>,
      text |-> <<87, 105, 108, 105, 99, 69, 70, 90, 54, 90, 113, 90, 108, 103, 70, 48, 49,
               76, 47, 53, 87, 118, 117, 50, 105, 76, 48, 88, 115, 98, 107, 78, 78, 108,
               111, 89, 82, 51, 74, 113, 75, 56, 68>>],
     \* crypt("default-tng-password", "$6$aaaaaaaaaaaaaaaa")
     [of |-> <<54, 97, 97, 97, 97, 97, 97, 97, 97, 97, 97, 97, 97, 97, 97, 97, 97, -1, 53,
             48, 48, 48, -1, 100, 101, 102, 97, 117, 108, 116, 45, 116, 110, 103, 45,
             112, 97, 115, 115, 119, 111, 114, 100>>,
      text |-> <<111, 100, 83, 111, 47, 120, 116, 52, 115, 82, 109, 113, 51, 71, 120, 82,
               56, 69, 52, 120, 105, 72, 50, 108, 83, 79, 99, 107, 67, 112, 114, 54,
               120, 72, 111, 75, 114, 48, 87, 98, 73, 103, 75, 114, 85, 88, 98, 69, 102,
               121, 71, 79, 81, 50, 119, 79, 76, 113, 68, 118, 75, 119, 119, 99, 105,
               105, 114, 97, 49, 54, 122, 75, 73, 71, 51, 105, 102, 86, 55, 108, 86, 82,
               100, 84, 76, 46>>],
     \* crypt("default-tng-password", "$1$salt")
     [of |-> <<49, 115, 97, 108, 116, -1, -1, 100, 101, 102, 97, 117, 108, 116, 45, 116,
             110, 103, 45, 112, 97, 115, 115, 119, 111, 114, 100>>,
      text |-> <<71, 102, 115, 70, 53, 68, 104, 103, 73, 105, 108, 85, 66, 119, 109, 111,
               121, 120, 102, 46, 90, 46>>],
     \* crypt("default-tng-password", "$5$ab")
     [of |-> <<53, 97, 98, -1, 53, 48, 48, 48, -1, 100, 101, 102, 97, 117, 108, 116, 45,
             116, 110, 103, 45, 112, 97, 115, 115, 119, 111, 114, 100>>,
      text |-> <<57, 82, 110, 53, 83, 115, 80, 57, 87, 118, 102, 97, 109, 119, 50, 77, 51,
               46, 54, 90, 99, 80, 121, 74, 46, 112, 79, 51, 112, 47, 87, 122, 66, 65,
               76, 53, 118, 49, 79, 108, 110, 110, 68>>],
     \* crypt("default-tng-password", "$6$xy")
     [of |-> <<54, 120, 121, -1, 53, 48, 48, 48, -1, 100, 101, 102, 97, 117, 108, 116, 45,
             116, 110, 103, 45, 112, 97, 115, 115, 119, 111, 114, 100>>,
      text |-> <<121, 57, 74, 65, 71, 74, 97, 83, 73, 84, 118, 65, 103, 118, 109, 118, 47,
               80, 82, 89, 71, 105, 115, 73, 76, 90, 79, 111, 65, 65, 77, 80, 87, 52,
               105, 86, 79, 97, 98, 87, 118, 81, 50, 49, 105, 70, 98, 84, 56, 119, 70,
               111, 87, 98, 108, 55, 79, 81, 116, 120, 47, 71, 50, 118, 68, 80, 103,
               117, 119, 88, 114, 104, 67, 85, 108, 51, 116, 120, 119, 57, 50, 78, 103,
               88, 116, 47>>],
     \* crypt("default-tng-password", "$5$rounds=1000$salt")
     [of |-> <<53, 115, 97, 108, 116, -1, 49, 48, 48, 48, -1, 100, 101, 102, 97, 117, 108,
             116, 45, 116, 110, 103, 45, 112, 97, 115, 115, 119, 111, 114, 100>>,
      text |-> <<68, 57, 68, 47, 47, 115, 103, 72, 116, 90, 84, 105, 57, 113, 70, 112, 85,
               110, 71, 71, 54, 52, 100, 57, 79, 114, 71, 76, 100, 56, 74, 68, 67, 114,
               101, 119, 106, 99, 77, 85, 81, 83, 54>>],
     \* crypt("default-tng-password", "$1$ab")
     [of |-> <<49, 97, 98, -1, -1, 100, 101, 102, 97, 117, 108, 116, 45, 116, 110, 103,
             45, 112, 97, 115, 115, 119, 111, 114, 100>>,
      text |-> <<82, 78, 75, 119, 97, 119, 84, 84, 107, 110, 76, 71, 114, 87, 80, 55, 102,
               50, 111, 67, 102, 46>>],
     \* crypt("default-tng-password", "_J9..salt")
     [of |-> <<95, 115, 97, 108, 116, -1, 213, 2, 0, 0, -1, 100, 101, 102, 97, 117, 108,
             116, 45, 116, 110, 103, 45, 112, 97, 115, 115, 119, 111, 114, 100>>,
      text |-> <<99, 104, 115, 97, 57, 48, 114, 76, 84, 72, 107>>],
     \* crypt("default-tng-password", "$2b$04$abcdefghijklmnopqrstuv")
     [of |-> <<50, 97, 98, 99, 100, 101, 102, 103, 104, 105, 106, 107, 108, 109, 110, 111,
             112, 113, 114, 115, 116, 117, 117, -1, 4, 0, -1, 100, 101, 102, 97, 117,
             108, 116, 45, 116, 110, 103, 45, 112, 97, 115, 115, 119, 111, 114, 100, 0,
             100, 101, 102, 97, 117, 108, 116, 45, 116, 110, 103, 45, 112, 97, 115, 115,
             119, 111, 114, 100, 0, 100, 101, 102, 97, 117, 108, 116, 45, 116, 110, 103,
             45, 112, 97, 115, 115, 119, 111, 114, 100, 0, 100, 101, 102, 97, 117, 108,
             116, 45, 116>>,
      text |-> <<52, 97, 90, 105, 110, 84, 120, 82, 104, 69, 55, 122, 75, 73, 51, 114, 50,
               48, 118, 88, 89, 70, 52, 72, 49, 114, 115, 70, 117, 78, 105>>],
     \* crypt("\x80a", "$2x$04$abcdefghijklmnopqrstuv")
     [of |-> <<50, 97, 98, 99, 100, 101, 102, 103, 104, 105, 106, 107, 108, 109, 110, 111,
             112, 113, 114, 115, 116, 117, 117, -1, 4, 0, -1, 255, 255, 255, 128, 255,
             255, 128, 97, 255, 128, 97, 0, 255, 255, 255, 128, 255, 255, 128, 97, 255,
             128, 97, 0, 255, 255, 255, 128, 255, 255, 128, 97, 255, 128, 97, 0, 255,
             255, 255, 128, 255, 255, 128, 97, 255, 128, 97, 0, 255, 255, 255, 128, 255,
             255, 128, 97, 255, 128, 97, 0, 255, 255, 255, 128, 255, 255, 128, 97, 255,
             128, 97, 0>>,
      text |-> <<115, 113, 76, 53, 107, 46, 117, 112, 85, 90, 114, 88, 89, 101, 83, 101,
               86, 53, 65, 97, 49, 113, 71, 71, 56, 67, 101, 71, 69, 99, 121>>],
     \* crypt("\x80a", "$2b$04$abcdefghijklmnopqrstuv")
     [of |-> <<50, 97, 98, 99, 100, 101, 102, 103, 104, 105, 106, 107, 108, 109, 110, 111,
             112, 113, 114, 115, 116, 117, 117, -1, 4, 0, -1, 128, 97, 0, 128, 97, 0,
             128, 97, 0, 128, 97, 0, 128, 97, 0, 128, 97, 0, 128, 97, 0, 128, 97, 0,
             128, 97, 0, 128, 97, 0, 128, 97, 0, 128, 97, 0, 128, 97, 0, 128, 97, 0,
             128, 97, 0, 128, 97, 0, 128, 97, 0, 128, 97, 0, 128, 97, 0, 128, 97, 0,
             128, 97, 0, 128, 97, 0, 128, 97, 0, 128, 97, 0>>,
      text |-> <<107, 88, 51, 73, 82, 89, 81, 85, 107, 79, 51, 54, 90, 52, 80, 66, 117,
               89, 84, 117, 52, 54, 71, 105, 52, 65, 100, 97, 120, 112, 83>>],
     \* crypt("\xff\xff\xff", "$2a$04$abcdefghijklmnopqrstuv")
     [of |-> <<50, 97, 98, 99, 100, 101, 102, 103, 104, 105, 106, 107, 108, 109, 110, 111,
             112, 113, 114, 115, 116, 117, 117, -1, 4, 1, -1, 255, 255, 255, 0, 255,
             255, 255, 0, 255, 255, 255, 0, 255, 255, 255, 0, 255, 255, 255, 0, 255,
             255, 255, 0, 255, 255, 255, 0, 255, 255, 255, 0, 255, 255, 255, 0, 255,
             255, 255, 0, 255, 255, 255, 0, 255, 255, 255, 0, 255, 255, 255, 0, 255,
             255, 255, 0, 255, 255, 255, 0, 255, 255, 255, 0, 255, 255, 255, 0, 255,
             255, 255, 0>>,
      text |-> <<111, 55, 75, 105, 101, 74, 115, 71, 46, 113, 113, 70, 72, 80, 122, 110,
               68, 57, 73, 75, 89, 108, 73, 111, 107, 49, 74, 89, 81, 50, 87>>],
     \* crypt("\xff\xff\xff", "$2b$04$abcdefghijklmnopqrstuv")
     [of |-> <<50, 97, 98, 99, 100, 101, 102, 103, 104, 105, 106, 107, 108, 109, 110, 111,
             112, 113, 114, 115, 116, 117, 117, -1, 4, 0, -1, 255, 255, 255, 0, 255,
             255, 255, 0, 255, 255, 255, 0, 255, 255, 255, 0, 255, 255, 255, 0, 255,
             255, 255, 0, 255, 255, 255, 0, 255, 255, 255, 0, 255, 255, 255, 0, 255,
             255, 255, 0, 255, 255, 255, 0, 255, 255, 255, 0, 255, 255, 255, 0, 255,
             255, 255, 0, 255, 255, 255, 0, 255, 255, 255, 0, 255, 255, 255, 0, 255,
             255, 255, 0>>,
      text |-> <<82, 89, 82, 88, 53, 86, 67, 52, 110, 116, 104, 75, 111, 55, 104, 54, 85,
               51, 55, 83, 120, 121, 90, 97, 122, 84, 82, 48, 87, 78, 75>>],
     \* crypt("default-tng-password", "$sha1$5$salt")
     [of |-> <<115, 115, 97, 108, 116, -1, 53, -1, 100, 101, 102, 97, 117, 108, 116, 45,
             116, 110, 103, 45, 112, 97, 115, 115, 119, 111, 114, 100>>,
      text |-> <<57, 75, 114, 118, 122, 82, 114, 121, 97, 46, 86, 79, 103, 112, 120, 68,
               122, 49, 74, 104, 107, 122, 112, 81, 106, 80, 54, 86>>],
     \* crypt("default-tng-password", "$md5$salt")
     [of |-> <<109, 36, 109, 100, 53, 36, 115, 97, 108, 116, -1, -1, 100, 101, 102, 97,
             117, 108, 116, 45, 116, 110, 103, 45, 112, 97, 115, 115, 119, 111, 114, 100>>,
      text |-> <<52, 100, 71, 74, 99, 66, 88, 89, 114, 117, 67, 113, 116, 112, 108, 77,
               70, 65, 90, 103, 90, 46>>],
     \* crypt("default-tng-password", "$md5,rounds=5$salt")
     [of |-> <<109, 36, 109, 100, 53, 44, 114, 111, 117, 110, 100, 115, 61, 53, 36, 115,
             97, 108, 116, -1, -1, 100, 101, 102, 97, 117, 108, 116, 45, 116, 110, 103,
             45, 112, 97, 115, 115, 119, 111, 114, 100>>,
      text |-> <<108, 90, 97, 67, 83, 109, 112, 88, 51, 99, 53, 111, 102, 68, 57, 78, 54,
               122, 115, 70, 77, 49>>],
     \* crypt("default-tng-password", "$3$")
     [of |-> <<51, 100, 101, 102, 97, 117, 108, 116, 45, 116, 110, 103, 45, 112, 97, 115,
             115, 119, 111, 114, 100>>,
      text |-> <<102, 57, 50, 57, 98, 56, 54, 48, 51, 53, 102, 52, 97, 57, 99, 102, 97,
               101, 49, 98, 49, 53, 51, 102, 49, 48, 57, 52, 52, 51, 55, 57>>],
     \* crypt("default-tng-password", "$7$5/..../....salt")
     [of |-> <<55, 115, 97, 108, 116, -1, 7, 1, 0, 0, 0, 1, 0, 0, 0, -1, 100, 101, 102,
             97, 117, 108, 116, 45, 116, 110, 103, 45, 112, 97, 115, 115, 119, 111, 114,
             100>>,
      text |-> <<84, 78, 50, 85, 46, 46, 117, 76, 46, 70, 115, 57, 50, 110, 76, 46, 52,
               118, 88, 97, 49, 112, 75, 113, 110, 55, 81, 49, 74, 115, 68, 89, 86, 105,
               75, 110, 117, 80, 115, 54, 103, 102, 47>>],
     \* crypt("default-tng-password", "$gy$j9T$abcd")
     [of |-> <<103, 97, 98, 99, 100, -1, 47, 12, 32, 0, 0, 0, 1, 0, 0, 0, 0, 0, 0, 0, -1,
             100, 101, 102, 97, 117, 108, 116, 45, 116, 110, 103, 45, 112, 97, 115, 115,
             119, 111, 114, 100>>,
      text |-> <<51, 73, 66, 86, 120, 81, 108, 87, 72, 89, 109, 109, 51, 100, 67, 84, 75,
               84, 119, 83, 107, 98, 46, 113, 88, 110, 116, 56, 107, 71, 87, 54, 111,
               87, 90, 85, 76, 47, 114, 109, 75, 49, 66>>],
     \* crypt("default-tng-password", "$y$j9T$")
     [of |-> <<121, -1, 47, 12, 32, 0, 0, 0, 1, 0, 0, 0, 0, 0, 0, 0, -1, 100, 101, 102,
             97, 117, 108, 116, 45, 116, 110, 103, 45, 112, 97, 115, 115, 119, 111, 114,
             100>>,
      text |-> <<121, 56, 75, 109, 57, 118, 118, 84, 120, 107, 104, 46, 55, 120, 100, 81,
               121, 121, 70, 52, 89, 88, 114, 116, 53, 104, 70, 108, 107, 52, 65, 84,
               83, 101, 77, 83, 82, 86, 120, 48, 82, 117, 56>>],
     \* crypt("", "$6$ab")
     [of |-> <<54, 97, 98, -1, 53, 48, 48, 48, -1>>,
      text |-> <<120, 110, 104, 53, 81, 115, 114, 50, 78, 100, 98, 70, 119, 49, 80, 103,
               100, 90, 105, 101, 55, 110, 76, 79, 78, 51, 103, 118, 46, 83, 46, 50, 51,
               105, 81, 68, 66, 113, 65, 122, 107, 100, 111, 88, 80, 116, 68, 110, 86,
               83, 112, 108, 117, 100, 88, 107, 77, 53, 85, 87, 121, 98, 81, 79, 51, 79,
               73, 55, 104, 66, 106, 57, 119, 72, 103, 57, 79, 119, 54, 115, 85, 87, 68,
               54, 48, 47>>],
     \* crypt("a", "$6$ab")
     [of |-> <<54, 97, 98, -1, 53, 48, 48, 48, -1, 97>>,
      text |-> <<47, 80, 122, 67, 114, 82, 86, 77, 109, 99, 73, 80, 103, 51, 57, 57, 109,
               48, 71, 106, 74, 69, 87, 55, 73, 115, 51, 110, 119, 106, 46, 72, 86, 51,
               78, 52, 78, 76, 74, 76, 88, 119, 122, 119, 122, 80, 115, 122, 74, 53, 53,
               74, 113, 46, 101, 70, 112, 106, 99, 113, 66, 99, 105, 65, 72, 55, 108,
               120, 52, 121, 65, 119, 115, 49, 110, 108, 101, 71, 73, 112, 105, 72, 68,
               116, 57, 49>>]
    }

\* the digest of msg in the scheme named by tag; no value where the
\* library's digest is not on record
Digest(tag, msg) == (CHOOSE d \in LibraryDigests : d.of = <<tag>> \o msg).text

\* the traditional scheme on a key of any length: one digest of 11
\* characters for every 8 characters of the key (7 bits of each), the salt of
\* a later one being the first two characters of the digest before it
RECURSIVE DesSegments(_, _)
DesSegments(key, salt2) ==
    CHOOSE text \in
        {IF Len(key) <= 8 THEN digest
         ELSE digest \o DesSegments(SubSeq(key, 9, Len(key)), SubSeq(digest, 1, 2)) :
            digest \in
              {Digest(0, salt2 \o <<-1>>
                           \o [i \in 1 .. 8 |-> IF i <= Len(key)
                                                THEN key[i] % 128 ELSE 0])}} : TRUE

\* what crypt_r returns for a setting it does not take: NULL, or, when the
\* library was built with failure tokens, "*0" ("*1" for a setting that
\* starts with "*0")
CryptFailure(setting, tokens) ==
    IF ~tokens THEN NULL
    ELSE IF Len(setting) >= 2 /\ setting[1] = 42 /\ setting[2] = 48
    THEN <<42, 49>>
    ELSE <<42, 48>>

\* crypt_r(key, setting, &crypt_data) of a library built with all its schemes.
\* lib.tokens: the library was built with failure tokens; lib.memory: the
\* memory a key derivation ("$7$", "$y$", "$gy$") can get, in blocks of 128
\* bytes; it asks for r * (N + p) of them and more, and fails without.
\*
\* "$1$", "$5$", "$6$": a setting "$<id>$[rounds=<n>$]<salt>[$...]" gives
\* "$<id>$[rounds=<n>$]<salt>$<digest>": the salt ends at the next '$' or
\* after 16 characters (8 in "$1$", which knows no rounds), n is 1000 ..
\* 999999999 written without a leading zero.
\* Traditional: a setting whose first two characters are of the crypt
\* alphabet gives these two and the digest; when it is longer than 13
\* characters the first 128 characters of the key are hashed, else its first 8.
\* "_": the count and the salt are four characters each, a count of 0 is 1.
\* "$2a$", "$2b$", "$2x$", "$2y$": "$2b$<cost>$" and 22 characters, cost two
\* digits 04 .. 31; the last character of the salt holds four bits; the
\* digest is of the 72 bytes the key fills when read round and round.
\* "$sha1$": "$sha1$<count>$<salt>", the count read as strtoul reads it.
\* "$md5": "$md5[,...]$[rounds=<n>$]<salt>[$[$]]".
\* "$3$": the digest is of the key alone.
\* "$7$": one character of N_log2, five each of r and p, the salt to the last
\* '$'.  "$y$", "$gy$": numbers of one to six characters (flavor, N_log2, r,
\* and p and t as a mask tells), the salt to the last '$'.
\* A setting with a character that no hash holds (a control character, a
\* blank, a byte of 0x7f or more, one of "!*:;\") is not taken, nor is a key
\* of 512 bytes or more, nor is any other setting
crypt_r(key, setting, lib) ==
    LET failure == CryptFailure(setting, lib.tokens)
        n == Len(setting)
        \* the character at position i, the NUL behind the last
        At(i) == IF i <= n THEN setting[i] ELSE 0
        Starts(at, lit) ==
            /\ n >= at + Len(lit) - 1
            /\ SubSeq(setting, at, at + Len(lit) - 1) = lit
        \* the first position from at that holds no character of the crypt
        \* alphabet, no digit
        SpanSalt(at) == Least({i \in at .. n + 1 : ~IsSaltChar(At(i))})
        SpanDigits(at) == Least({i \in at .. n + 1 : At(i) \notin 48 .. 57})
        \* the characters from position at to the next '$', max of them at most
        SaltAt(at, max) ==
            LET stop == {i \in at .. n : setting[i] = 36}
                end == IF stop = {} THEN n ELSE Least(stop) - 1
            IN SubSeq(setting, at, Min(end, at + max - 1))
        \* the position of the last '$' from at on, behind the end without one
        LastDollar(at) ==
            LET dollars == {i \in at .. n : setting[i] = 36}
            IN IF dollars = {} THEN n + 1 ELSE Greatest(dollars)
        \* what is hashed: the salt, the parameters and the key
        Message(salt, params) == salt \o <<-1>> \o params \o <<-1>> \o key
        \* a number below 2^31 as four bytes
        Bytes(v) == <<v % 256, (v \div 256) % 256, (v \div 65536) % 256,
                      v \div 16777216>>
        \* the number in the k characters from position at, the lowest first
        Num(at, k) ==
            LET W(j) == IF j < k THEN Atoi64(At(at + j)) * (64 ^ j) ELSE 0
            IN W(0) + W(1) + W(2) + W(3) + W(4)
        \* decimal digits without leading zeros, and their order as numbers
        Strip(ds) ==
            LET nz == {i \in 1 .. Len(ds) : ds[i] # 0}
            IN IF nz = {} THEN <<>> ELSE SubSeq(ds, Least(nz), Len(ds))
        Less(a, b) ==
            \/ Len(a) < Len(b)
            \/ /\ Len(a) = Len(b)
               /\ \E i \in 1 .. Len(a) :
                    a[i] < b[i] /\ \A j \in 1 .. i - 1 : a[j] = b[j]
        DigitsAt(from, to) == [i \in 1 .. to - from |-> setting[from + i - 1] - 48]
        \* the r * (2^N_log2 + p) blocks of a key derivation are to be had
        Fits(N_log2, r, p) ==
            /\ N_log2 <= 30
            /\ p <= lib.memory \div r
            /\ 2 ^ N_log2 <= lib.memory \div r - p
        \* the digits that follow "$<id>$rounds="
        digits ==
            LET other == {i \in 11 .. n : setting[i] \notin 48 .. 57}
            IN SubSeq(setting, 11, IF other = {} THEN n ELSE Least(other) - 1)
        Sha ==
            IF Starts(4, <<114, 111, 117, 110, 100, 115, 61>>)
            THEN IF /\ Len(digits) \in 4 .. 9
                    /\ digits[1] # 48
                    /\ Starts(11 + Len(digits), <<36>>)
                 THEN SubSeq(setting, 1, 11 + Len(digits))
                        \o SaltAt(12 + Len(digits), 16) \o <<36>>
                        \o Digest(setting[2], Message(SaltAt(12 + Len(digits), 16), digits))
                 ELSE failure
            ELSE SubSeq(setting, 1, 3) \o SaltAt(4, 16) \o <<36>>
                   \o Digest(setting[2], Message(SaltAt(4, 16), <<53, 48, 48, 48>>))
        \* "_CCCCSSSS"
        Bsdi ==
            IF n >= 9 /\ \A i \in 2 .. 9 : IsSaltChar(setting[i])
            THEN SubSeq(setting, 1, 9)
                   \o Digest(95,
                             SubSeq(setting, 6, 9) \o <<-1>>
                               \o Bytes(IF Num(2, 4) = 0 THEN 1 ELSE Num(2, 4))
                               \o <<-1>>
                               \o [i \in 1 .. IF Len(key) < 8 THEN 8 ELSE Len(key) |->
                                     IF i <= Len(key) THEN key[i] % 128 ELSE 0])
            ELSE failure
        \* "$2b$CC$" and 22 characters of salt, in the alphabet [./A-Za-z0-9]
        Bcrypt ==
            LET cost == (setting[5] - 48) * 10 + setting[6] - 48
                Idx(c) == IF c \in 46 .. 47 THEN c - 46
                          ELSE IF c \in 65 .. 90 THEN c - 63
                          ELSE IF c \in 97 .. 122 THEN c - 69
                          ELSE c + 6
                Chr(v) == IF v < 2 THEN 46 + v
                          ELSE IF v < 28 THEN 63 + v
                          ELSE IF v < 54 THEN 69 + v
                          ELSE v - 6
                salt == SubSeq(setting, 8, 28) \o <<Chr(16 * (Idx(setting[29]) \div 16))>>
                \* the 18 words of the key schedule, byte by byte: the key
                \* and its NUL, read round and round
                correct == [i \in 1 .. 72 |-> (key \o <<0>>)[((i - 1) % (Len(key) + 1)) + 1]]
                \* "$2x$" extends the sign of a byte of the key over the
                \* bytes before it in its word
                bug == [i \in 1 .. 72 |->
                          IF \E j \in i + 1 .. 4 * ((i + 3) \div 4) : correct[j] >= 128
                          THEN 255 ELSE correct[i]]
                \* "$2a$" marks a key with an 8-bit byte behind the first
                \* of a word whose sign "$2x$" would extend without effect
                sign == \E i \in 1 .. 72 : i % 4 # 1 /\ correct[i] >= 128
                safety == IF setting[3] = 97 /\ sign /\ bug = correct THEN 1 ELSE 0
                digest == Digest(50, salt \o <<-1, cost, safety, -1>>
                                       \o (IF setting[3] = 120 THEN bug ELSE correct))
            IN IF /\ n >= 29
                  /\ setting[3] \in {97, 98, 120, 121}
                  /\ setting[4] = 36
                  /\ setting[5] \in 48 .. 57
                  /\ setting[6] \in 48 .. 57
                  /\ cost \in 4 .. 31
                  /\ setting[7] = 36
                  /\ \A i \in 8 .. 29 : IsSaltChar(setting[i])
               THEN SubSeq(setting, 1, 7) \o salt \o digest
               ELSE failure
        \* "$sha1$<count>$<salt>"
        Sha1 ==
            LET from == IF At(7) \in {43, 45} THEN 8 ELSE 7
                to == SpanDigits(from)
                ULONG_MAX == <<1, 8, 4, 4, 6, 7, 4, 4, 0, 7, 3, 7, 0, 9, 5, 5, 1, 6, 1, 5>>
                mag == Strip(DigitsAt(from, to))
                \* 2^64 - mag
                pad == [i \in 1 .. 20 |-> IF i <= 20 - Len(mag) THEN 0
                                          ELSE mag[i - (20 - Len(mag))]]
                top == [ULONG_MAX EXCEPT ![20] = 6]
                borrow[i \in 1 .. 21] ==
                    IF i = 21 THEN 0
                    ELSE IF top[i] - pad[i] - borrow[i + 1] < 0 THEN 1 ELSE 0
                minus == Strip([i \in 1 .. 20 |->
                                   (top[i] - pad[i] - borrow[i + 1] + 10) % 10])
                count == IF Less(ULONG_MAX, mag) THEN ULONG_MAX
                         ELSE IF At(7) = 45 /\ mag # <<>> THEN minus
                         ELSE mag
                iterations == IF count = <<>> THEN <<48>>
                              ELSE [i \in 1 .. Len(count) |-> count[i] + 48]
                end == SpanSalt(to + 1)
                salt == SubSeq(setting, to + 1, end - 1)
                pre == SubSeq(setting, 1, 6) \o iterations \o <<36>> \o salt
            IN IF \/ from = 8 /\ to = 8
                  \/ At(to) # 36
                  \/ salt = <<>>
                  \/ At(end) \notin {0, 36}
               THEN failure
               ELSE IF Len(pre) >= 383 THEN SubSeq(pre, 1, 383)
               ELSE pre \o <<36>> \o Digest(115, Message(salt, iterations))
        \* "$md5[,...]$[rounds=<n>$]<salt>[$[$]]"
        SunMD5 ==
            LET rounds == Starts(6, <<114, 111, 117, 110, 100, 115, 61>>)
                to == SpanDigits(13)
                UINT_MAX == <<4, 2, 9, 4, 9, 6, 7, 2, 9, 5>>
                p == IF rounds THEN to + 1 ELSE 6
                q == SpanSalt(p)
                saltlen == q - 1 + (IF At(q) = 36 /\ At(q + 1) \in {0, 36} THEN 1 ELSE 0)
            IN IF \/ At(5) \notin {36, 44}
                  \/ /\ rounds
                     /\ \/ to = 13
                        \/ setting[13] = 48
                        \/ Less(UINT_MAX, DigitsAt(13, to))
                        \/ At(to) # 36
                  \/ At(q) \notin {0, 36}
                  \/ saltlen > 360
               THEN failure
               ELSE SubSeq(setting, 1, saltlen) \o <<36>>
                      \o Digest(109, Message(SubSeq(setting, 1, saltlen), <<>>))
        \* "$3$": the digest of the key in hexadecimal digits
        Nt ==
            <<36, 51, 36, 36>> \o Digest(51, key)
        \* "$7$Nrrrrrppppp<salt>"
        Scrypt ==
            LET N_log2 == Atoi64(At(4))
                r == Num(5, 5)
                p == Num(10, 5)
                salt == SubSeq(setting, 15, LastDollar(15) - 1)
                \* the characters behind the parameters are looked at from i
                \* on: a run of the crypt alphabet ends the setting or is
                \* followed by '$', and what follows the '$' is looked at in
                \* turn when it starts with a character of the alphabet or '$'
                good[i \in 15 .. n + 1] ==
                    IF At(SpanSalt(i)) = 0 THEN TRUE
                    ELSE IF At(SpanSalt(i)) # 36 THEN FALSE
                    ELSE IF \/ IsSaltChar(At(SpanSalt(i) + 1))
                            \/ At(SpanSalt(i) + 1) = 36
                    THEN good[SpanSalt(i) + 1]
                    ELSE TRUE
            IN IF /\ n >= 14
                  /\ n <= 339
                  /\ \A i \in 4 .. 14 : IsSaltChar(setting[i])
                  /\ N_log2 >= 2
                  /\ r >= 1
                  /\ p >= 1
                  /\ r <= (2 ^ 30 - 1) \div p
                  /\ good[15]
                  /\ Fits(N_log2, r, p)
               THEN SubSeq(setting, 1, 14) \o salt \o <<36>>
                      \o Digest(55, Message(salt, <<N_log2>> \o Bytes(r) \o Bytes(p)))
               ELSE failure
        \* "$y$<flavor><N_log2><r>[<have>[<p>][<t>]]$<salt>" from position o:
        \* numbers of one to six characters each, less the least value each
        \* may have, up to the '$' at position end
        Yescrypt(o, tag) ==
            LET end == Least({i \in o .. n + 1 : At(i) \in {0, 36}})
                \* the numbers from position i on, -1 for what is none
                numbers[i \in o .. end] ==
                    IF i = end THEN <<>>
                    ELSE LET c == Atoi64(setting[i])
                             chars == IF c <= 47 THEN 1 ELSE IF c <= 55 THEN 2
                                      ELSE IF c <= 59 THEN 3 ELSE IF c <= 61 THEN 4
                                      ELSE IF c = 62 THEN 5 ELSE 6
                             start == <<0, 48, 56, 60, 62, 63>>[chars]
                             base == <<0, 48, 560, 16944, 541232, 17318448>>[chars]
                             W(k) == IF k < chars
                                     THEN Atoi64(setting[i + k]) * (64 ^ (chars - 1 - k))
                                     ELSE 0
                         IN IF \/ i + chars > end
                               \/ \E k \in 0 .. chars - 1 : Atoi64(setting[i + k]) > 63
                            THEN <<-1>>
                            ELSE <<base + (c - start) * (64 ^ (chars - 1))
                                     + W(1) + W(2) + W(3) + W(4) + W(5)>>
                                   \o numbers[i + chars]
                Hash(nums, stop) ==
                    LET flavor == nums[1]
                        N_log2 == nums[2] + 1
                        r == nums[3] + 1
                        mask == IF Len(nums) > 3 THEN (nums[4] + 1) % 16 ELSE 0
                        hasp == mask % 2
                        hast == (mask \div 2) % 2
                        p == IF hasp = 1 THEN nums[5] + 2 ELSE 1
                        t == IF hast = 1 THEN nums[5 + hasp] + 1 ELSE 0
                        k == stop - 1 - end
                    IN IF /\ n <= 339
                          /\ At(end) = 36
                          /\ \A i \in 1 .. Len(nums) : nums[i] >= 0
                          /\ Len(nums) >= 3
                          /\ mask < 4
                          /\ Len(nums) = 3 \/ Len(nums) = 4 + hasp + hast
                          /\ flavor \in {0, 1, 47}
                          /\ N_log2 \in 2 .. 31
                          /\ r <= (2 ^ 30 - 1) \div p
                          /\ flavor = 0 => t = 0
                          /\ flavor = 47 => p <= 2 ^ (N_log2 - 2)
                          /\ \A i \in end + 1 .. stop - 1 : IsSaltChar(setting[i])
                          /\ k <= 86
                          /\ k % 4 # 1
                          /\ k % 4 = 2 => Atoi64(setting[stop - 1]) < 4
                          /\ k % 4 = 3 => Atoi64(setting[stop - 1]) < 16
                          /\ Fits(N_log2, r, p)
                       THEN SubSeq(setting, 1, stop - 1) \o <<36>>
                              \o Digest(tag,
                                        Message(SubSeq(setting, end + 1, stop - 1),
                                                <<flavor, N_log2>> \o Bytes(r)
                                                  \o Bytes(p) \o Bytes(t)))
                       ELSE failure
            IN CHOOSE result \in {Hash(nums, stop) : nums \in {numbers[o]},
                                                     stop \in {LastDollar(end + 1)}} : TRUE
    IN IF \/ Len(key) >= 512
          \/ \E i \in 1 .. n :
               \/ setting[i] <= 32
               \/ setting[i] >= 127
               \/ setting[i] \in {33, 42, 58, 59, 92}
       THEN failure
       ELSE IF Starts(1, <<36, 121, 36>>) THEN Yescrypt(4, 121)
       ELSE IF Starts(1, <<36, 103, 121, 36>>) THEN Yescrypt(5, 103)
       ELSE IF Starts(1, <<36, 55, 36>>) THEN Scrypt
       ELSE IF Starts(1, <<36, 50>>) THEN Bcrypt
       ELSE IF Starts(1, <<36, 54, 36>>) THEN Sha
       ELSE IF Starts(1, <<36, 53, 36>>) THEN Sha
       ELSE IF Starts(1, <<36, 115, 104, 97, 49, 36>>) THEN Sha1
       ELSE IF Starts(1, <<36, 109, 100, 53>>) THEN SunMD5
       ELSE IF Starts(1, <<36, 49, 36>>)
       THEN SubSeq(setting, 1, 3) \o SaltAt(4, 8) \o <<36>>
              \o Digest(49, Message(SaltAt(4, 8), <<>>))
       ELSE IF Starts(1, <<36, 51, 36>>) THEN Nt
       ELSE IF Starts(1, <<95>>) THEN Bsdi
       ELSE IF n >= 2 /\ IsSaltChar(setting[1]) /\ IsSaltChar(setting[2])
       THEN SubSeq(setting, 1, 2)
              \o DesSegments(SubSeq(key, 1, Min(Len(key),
                                     IF n > 13 THEN 128 ELSE 8)),
                             SubSeq(setting, 1, 2))
       ELSE failure

(***************************************************************************)
(* replace_password: the search of the account's entry                     *)
(***************************************************************************)
\* "tng" and "default-tng-password"
ACCOUNT_NAME == <<116, 110, 103>>
DEFAULT_PASSWORD == <<100, 101, 102, 97, 117, 108, 116, 45, 116, 110, 103,
                      45, 112, 97, 115, 115, 119, 111, 114, 100>>
SHADOW_BUFFER_LENGTH == 512 * 1024
SHADOW_ENCRYPTED_LENGTH == 512

\* ':', '!', '*', '$' and new-line
COLON == 58
BANG == 33
STAR == 42
DOLLAR == 36
NEWLINE == 10

Skip(why) == [outcome |-> "skip", why |-> why, begin |-> 0, end |-> 0,
              encrypted_used |-> 0, salt |-> <<>>]
Malformed(why) == [outcome |-> "panic", why |-> why, begin |-> 0, end |-> 0,
                   encrypted_used |-> 0, salt |-> <<>>]

\* mutant of salt_used: the last '$' is taken into the salt
salt_usedWithDelimiter(encrypted) ==
    IF encrypted[1] # DOLLAR THEN 2
    ELSE Strrchr(encrypted, 1, DOLLAR)

\* salt_used: the length of the salt taken from encrypted (NUL-terminated)
salt_used(encrypted) ==
    IF encrypted[1] # DOLLAR THEN 2
    ELSE Strrchr(encrypted, 1, DOLLAR) - 1

\* lines 708-792 of replace_password on the file's bytes: what it decides and,
\* when it replaces, the positions encrypted_begin and encrypted_end in buffer
FindEntry(data, lib) ==
    LET name == ACCOUNT_NAME \o <<COLON>>
        \* each of the operators below takes the locals of the function that
        \* have their values by then, so that each is computed once
        Compare(encrypted_used, encrypted_begin, encrypted_end, encrypted, salt,
                crypt_result) ==
            IF crypt_result = NULL
            THEN [Malformed("crypt") EXCEPT
                     !.encrypted_used = encrypted_used, !.salt = salt]
            ELSE IF ~Strcmp0(crypt_result, CStr(encrypted))
            THEN [Skip("not the default password") EXCEPT
                     !.encrypted_used = encrypted_used, !.salt = salt]
            ELSE [outcome |-> "replace", why |-> "default password",
                  begin |-> encrypted_begin, end |-> encrypted_end,
                  encrypted_used |-> encrypted_used, salt |-> salt]
        Crypt(encrypted_used, encrypted_begin, encrypted_end, encrypted, salt) ==
            CHOOSE r \in {Compare(encrypted_used, encrypted_begin, encrypted_end,
                                  encrypted, salt, crypt_result) :
                             crypt_result \in {crypt_r(DEFAULT_PASSWORD, salt, lib)}} : TRUE
        Salt(encrypted_used, encrypted_begin, encrypted_end, encrypted) ==
            CHOOSE r \in {Crypt(encrypted_used, encrypted_begin, encrypted_end,
                                encrypted, salt) :
                             salt \in {SubSeq(encrypted, 1, salt_used(encrypted))}} : TRUE
        Locked(buffer, encrypted_begin, encrypted_end, encrypted_used) ==
            IF buffer[encrypted_begin] = STAR THEN Skip("no password set")
            ELSE IF buffer[encrypted_begin] # BANG THEN Skip("not locked")
            ELSE IF encrypted_end = 0 THEN Malformed("no end")
            ELSE IF encrypted_used > SHADOW_ENCRYPTED_LENGTH THEN Malformed("too big")
            ELSE IF encrypted_used < 2 THEN Malformed("too short")
            ELSE CHOOSE r \in
                   {Salt(encrypted_used, encrypted_begin, encrypted_end, encrypted) :
                      encrypted \in {SubSeq(buffer, encrypted_begin + 1,
                                            encrypted_end - 1) \o <<0>>}} : TRUE
        End(buffer, encrypted_begin) ==
            CHOOSE r \in {Locked(buffer, encrypted_begin, encrypted_end,
                                 encrypted_end - (encrypted_begin + 1)) :
                             encrypted_end \in
                               {Strchr(buffer, encrypted_begin, COLON)}} : TRUE
        Entry(buffer, entry_begin) ==
            IF entry_begin = 0 THEN Skip("not present")
            ELSE IF Strchr(buffer, entry_begin, COLON) = 0 THEN Malformed("no colon")
            ELSE CHOOSE r \in {End(buffer, encrypted_begin) :
                                  encrypted_begin \in
                                    {Strchr(buffer, entry_begin, COLON) + 1}} : TRUE
        Begin(buffer) ==
            CHOOSE r \in {Entry(buffer, entry_begin) :
                             entry_begin \in
                               {IF Strncmp0(buffer, 1, name) THEN 1
                                ELSE IF Strstr(buffer, 1, <<NEWLINE>> \o name) = 0 THEN 0
                                ELSE Strstr(buffer, 1, <<NEWLINE>> \o name) + 1}} : TRUE
    IN CHOOSE r \in {Begin(buffer) : buffer \in {data \o <<0>>}} : TRUE

(***************************************************************************)
(* robust_mount                                                            *)
(***************************************************************************)
\* how many times the model lets the source be missing
MaxRetries == 3

\* usleep(500 * 1000), in milliseconds
BACKOFF_MSEC == 500

\* results: what mnt_context_mount returned, attempt by attempt; slept: the
\* time spent in usleep; fatal: the call whose failure led to panic
MntIdle == [source |-> <<>>, type |-> <<>>, retries |-> 0, results |-> <<>>,
            sleeps |-> 0, slept |-> 0, fatal |-> "none"]

\* mutant of Retryable: no error is retried
RetryableNever(rc) == FALSE

\* mutant of Retryable: every error is retried
RetryableAlways(rc) == rc # "ok"

\* rc == -MNT_ERR_NOSOURCE
Retryable(rc) == rc = "nosource"

\* robust_mount(root, "/mnt", rootfstype, MS_NOATIME) is called
RobustMountCall(source, type) ==
    /\ pc = "idle"
    /\ mnt' = [MntIdle EXCEPT !.source = source, !.type = type]
    /\ pc' = "mnt_new"
    /\ UNCHANGED notMnt

\* retry: ctx = mnt_new_context()
MntNewContext ==
    /\ pc = "mnt_new"
    /\ \E ctx \in {"ctx", "NULL"} :
         /\ pc' = IF ctx = "NULL" THEN "panic" ELSE "mnt_setup"
         /\ mnt' = [mnt EXCEPT !.fatal = IF ctx = "NULL" THEN "mnt_new_context" ELSE @]
    /\ UNCHANGED notMnt

\* disable_helpers, set_fstype, set_source, set_target, set_mflags: the
\* first of them to fail, if any, ends in panic
MntSetup ==
    /\ pc = "mnt_setup"
    /\ \E failed \in {"none", "disable_helpers", "set_fstype", "set_source",
                      "set_target", "set_mflags"} :
         /\ pc' = IF failed = "none" THEN "mnt_mount" ELSE "panic"
         /\ mnt' = [mnt EXCEPT !.fatal = failed]
    /\ UNCHANGED notMnt

\* rc = mnt_context_mount(ctx) and the branch on rc
MntMount ==
    /\ pc = "mnt_mount"
    /\ \E rc \in {"ok", "nosource", "error"} :
         /\ rc = "nosource" => mnt.retries < MaxRetries
         /\ pc' = IF rc = "ok" THEN "mnt_returned"
                  ELSE IF Retryable(rc) THEN "mnt_sleep" ELSE "panic"
         /\ mnt' = [mnt EXCEPT !.results = Append(@, rc),
                      !.fatal = IF rc = "ok" \/ Retryable(rc) THEN @ ELSE "mnt_context_mount"]
    /\ UNCHANGED notMnt

\* mnt_free_context, usleep, ++retries, goto retry
MntSleep ==
    /\ pc = "mnt_sleep"
    /\ mnt' = [mnt EXCEPT !.sleeps = @ + 1, !.slept = @ + BACKOFF_MSEC,
                          !.retries = @ + 1]
    /\ pc' = "mnt_new"
    /\ UNCHANGED notMnt

(***************************************************************************)
(* The machine around the program, and the frames of main and its callees  *)
(* at rest                                                                 *)
(***************************************************************************)
\* hc: the hardware clock in seconds since the epoch; clock: the system
\* clock once settimeofday has set it; store: the configuration store of the
\* Ethernet chip; cmds: the ethtool commands sent to the chip
HwIdle == [hc |-> 0, clock |-> [set |-> FALSE, sec |-> 0, minuteswest |-> 0],
           store |-> <<>>, cmds |-> <<>>]

\* elapsed: timeout_now - timeout_start; same: polls since time() last moved
RtcIdle == [hc_start |-> 0, hc_now |-> 0, elapsed |-> 0, same |-> 0, result |-> "none"]

\* data: u.eeprom.data after the last SIOCETHTOOL; runs: the calls so far;
\* before: how many commands the chip had been sent when the call began
EthIdle == [data |-> <<>>, result |-> "none", runs |-> 0, before |-> 0]

\* at: the statement main is at; trace: the steps executed so far; failed:
\* the steps whose call failed; reboot: what became of the reboot request
MainIdle == [at |-> "none", trace |-> <<>>, failed |-> {}, cmdline |-> <<>>,
             root |-> <<>>, rootfstype |-> <<>>, init |-> <<>>, reboot |-> "none"]

(***************************************************************************)
(* rtc_hctosys                                                             *)
(***************************************************************************)
\* how many polls in a row find time() unchanged
MaxSame == 2

\* timeout_now - timeout_start > 3
RTC_TIMEOUT == 3

\* tm_sec of a hardware clock reading
tm_sec(t) == t % 60

\* mutant of SecChanged: the first reading of the loop is taken
SecChangedAlways(hc_start, hc_now) == TRUE

\* hc_start.tm_sec != hc_now.tm_sec
SecChanged(hc_start, hc_now) == tm_sec(hc_start) # tm_sec(hc_now)

\* rtc_hctosys() is called
RtcCall ==
    /\ pc = "idle"
    /\ rtc.result = "none"
    /\ rtc' = RtcIdle
    /\ pc' = "rtc_open"
    /\ UNCHANGED <<hw, notRtc>>

\* open of RTC_PATH, the first RTC_RD_TIME, timeout_start = time(NULL)
RtcOpen ==
    /\ pc = "rtc_open"
    /\ \E io \in {"ok", "open_err", "read_err"} :
         /\ rtc' = [rtc EXCEPT !.hc_start = IF io = "ok" THEN hw.hc ELSE @,
                               !.result = IF io = "ok" THEN @ ELSE io]
         /\ pc' = IF io = "ok" THEN "rtc_poll" ELSE "rtc_returned"
    /\ UNCHANGED <<hw, notRtc>>

\* one turn of the loop: RTC_RD_TIME, the test of tm_sec, the test of the
\* timeout.  tick: the hardware clock moved on since the last reading; adv:
\* time() moved on since the last turn
RtcPoll ==
    /\ pc = "rtc_poll"
    /\ \E io \in {"ok", "read_err"}, tick \in {0, 1}, adv \in {0, 1} :
         IF io = "read_err"
         THEN /\ tick = 0 /\ adv = 0
              /\ rtc' = [rtc EXCEPT !.result = "read_err"]
              /\ pc' = "rtc_returned"
              /\ hw' = hw
         ELSE /\ hw' = [hw EXCEPT !.hc = @ + tick]
              /\ IF SecChanged(rtc.hc_start, hw.hc + tick)
                 THEN /\ adv = 0
                      /\ rtc' = [rtc EXCEPT !.hc_now = hw.hc + tick]
                      /\ pc' = "rtc_set"
                 ELSE /\ adv = 0 => rtc.same < MaxSame
                      /\ rtc' = [rtc EXCEPT !.hc_now = hw.hc + tick,
                                            !.elapsed = @ + adv,
                                            !.same = IF adv = 1 THEN 0 ELSE @ + 1,
                                            !.result = IF rtc.elapsed + adv > RTC_TIMEOUT
                                                       THEN "stuck" ELSE @]
                      /\ pc' = IF rtc.elapsed + adv > RTC_TIMEOUT
                               THEN "rtc_returned" ELSE "rtc_poll"
    /\ UNCHANGED notRtc

\* timegm, localtime_r, settimeofday.  timezone and isdst are what the C
\* library holds for the local time zone
RtcSet ==
    /\ pc = "rtc_set"
    /\ \E io \in {"ok", "set_err"}, timezone \in {0, -3600}, isdst \in BOOLEAN :
         IF rtc.hc_now < 0
         THEN /\ io = "ok" /\ timezone = 0 /\ ~isdst
              /\ rtc' = [rtc EXCEPT !.result = "conv_err"]
              /\ hw' = hw
         ELSE /\ rtc' = [rtc EXCEPT !.result = IF io = "ok" THEN "set" ELSE io]
              /\ hw' = IF io # "ok" THEN hw
                       ELSE [hw EXCEPT !.clock =
                               [set |-> TRUE, sec |-> rtc.hc_now,
                                minuteswest |-> timezone \div 60 - (IF isdst THEN 60 ELSE 0)]]
    /\ pc' = "rtc_returned"
    /\ UNCHANGED notRtc

(***************************************************************************)
(* configure_ethernet                                                      *)
(***************************************************************************)
\* how many times in a row a function is run
MaxRuns == 2

\* eeprom.data_v1.ethernet_config
ethernet_config(e) == Field(e, OFF_ETHERNET, ETHERNET_CONFIG_LENGTH)

\* mutant of Configured: every first byte counts as configured
ConfiguredAny(byte) == TRUE

\* u.eeprom.data[0] == 0xA5
Configured(byte) == byte = 165

\* configure_ethernet() is called, and returns at once without a record
EthCall ==
    /\ pc \in {"idle", "eth_returned"}
    /\ eth.runs < MaxRuns
    /\ IF ~eeprom_valid \/ data_version(eeprom) < 1
       THEN /\ eth' = [EthIdle EXCEPT !.result = "skipped", !.runs = eth.runs + 1,
                                      !.before = Len(hw.cmds)]
            /\ pc' = "eth_returned"
       ELSE /\ eth' = [EthIdle EXCEPT !.runs = eth.runs + 1, !.before = Len(hw.cmds)]
            /\ pc' = "eth_lookup"
    /\ UNCHANGED <<hw, notEth>>

\* opendir, readdir, the tests of d_type and d_name, socket
EthLookup ==
    /\ pc = "eth_lookup"
    /\ \E io \in {"ok", "opendir_err", "readdir_err", "type_err", "name_err", "socket_err"} :
         /\ eth' = [eth EXCEPT !.result = IF io = "ok" THEN @ ELSE io]
         /\ pc' = IF io = "ok" THEN "eth_first" ELSE "panic"
    /\ UNCHANGED <<hw, notEth>>

\* ETHTOOL_GEEPROM of one byte at offset 0 and the test for 0xA5
EthFirst ==
    /\ pc = "eth_first"
    /\ \E io \in {"ok", "ioctl_err"} :
         IF io # "ok"
         THEN /\ eth' = [eth EXCEPT !.result = "first_err"]
              /\ pc' = "panic"
              /\ hw' = hw
         ELSE /\ hw' = [hw EXCEPT !.cmds = Append(@, "get1")]
              /\ eth' = [eth EXCEPT !.data = SubSeq(hw.store, 1, 1),
                                    !.result = IF Configured(hw.store[1]) THEN "already" ELSE @]
              /\ pc' = IF Configured(hw.store[1]) THEN "eth_returned" ELSE "eth_write"
    /\ UNCHANGED notEth

\* what the chip's store may hold after a write of config: the config, the
\* config with its last byte wrong, or what it held before
StoreAfterWrite(store, config) ==
    {config, [config EXCEPT ![ETHERNET_CONFIG_LENGTH] = (@ + 1) % 256], store}

\* ETHTOOL_SEEPROM of the 256 bytes of eeprom.data_v1.ethernet_config, usleep
EthWrite ==
    /\ pc = "eth_write"
    /\ \E io \in {"ok", "ioctl_err"}, after \in StoreAfterWrite(hw.store, ethernet_config(eeprom)) :
         /\ hw' = [hw EXCEPT !.cmds = Append(@, "set"), !.store = after]
         /\ eth' = [eth EXCEPT !.data = ethernet_config(eeprom),
                               !.result = IF io = "ok" THEN @ ELSE "write_err"]
         /\ pc' = IF io = "ok" THEN "eth_validate" ELSE "panic"
    /\ UNCHANGED notEth

\* ETHTOOL_GEEPROM of 256 bytes and the memcmp with the record's config
EthValidate ==
    /\ pc = "eth_validate"
    /\ \E io \in {"ok", "ioctl_err"} :
         IF io # "ok"
         THEN /\ eth' = [eth EXCEPT !.result = "read_err"]
              /\ pc' = "panic"
              /\ hw' = hw
         ELSE /\ hw' = [hw EXCEPT !.cmds = Append(@, "get256")]
              /\ eth' = [eth EXCEPT !.data = hw.store,
                            !.result = IF Memcmp0(hw.store, ethernet_config(eeprom))
                                       THEN "configured" ELSE "mismatch"]
              /\ pc' = IF Memcmp0(hw.store, ethernet_config(eeprom))
                       THEN "eth_returned" ELSE "panic"
    /\ UNCHANGED notEth

(***************************************************************************)
(* read_eeprom                                                             *)
(***************************************************************************)
\* no chip is looked at
NoImage == [kind |-> "none", field |-> "none"]

\* the byte i2c_read8 delivers for an address: a byte of the image, and
\* 0xFF (an erased cell) past its end
ReadByte(image, address) ==
    IF address < Len(image) THEN image[address + 1] ELSE 255

\* the header loop: u.bytes[0 .. sizeof(header) - 1] are read from the chip
HeaderRead(u, image) ==
    [i \in 1 .. EEPROM_SIZE |-> IF i <= HEADER_SIZE THEN ReadByte(image, i - 1) ELSE u[i]]

\* the data_length bytes the data loop reads
Payload(image, length) == [i \in 1 .. length |-> ReadByte(image, HEADER_SIZE + i - 1)]

\* mutant of InRecord: every byte of the data is stored
InRecordUnchecked(address) == TRUE

\* address < sizeof(u.eeprom)
InRecord(address) == address < EEPROM_SIZE

\* the highest address at which the data loop stores a byte for a
\* data_length, -1 when it stores none
LastStored(length) ==
    IF \A a \in HEADER_SIZE .. HEADER_SIZE + length - 1 : ~InRecord(a) THEN -1
    ELSE CHOOSE a \in HEADER_SIZE .. HEADER_SIZE + length - 1 :
             InRecord(a) /\ \A b \in a + 1 .. HEADER_SIZE + length - 1 : ~InRecord(b)

\* the data loop: a byte is stored when its address lies in u.eeprom; the
\* bytes reach as far as the highest address stored, so a store past the
\* end of u shows as a longer sequence
DataRead(u, image) ==
    [i \in 1 .. (IF LastStored(data_length(u)) < Len(u) THEN Len(u)
                 ELSE LastStored(data_length(u)) + 1) |->
        IF i > HEADER_SIZE /\ i <= HEADER_SIZE + data_length(u) /\ InRecord(i - 1)
        THEN ReadByte(image, i - 1) ELSE u[i]]

\* the checksum accumulated by the data loop
DataChecksum(u, image) ==
    crc32(crc32(crc32(ZERO32, Field(u, OFF_LENGTH, 2)), Field(u, OFF_VERSION, 1)),
          Payload(image, data_length(u)))

\* the checks of version, length and terminators: "ok" or what is wrong
Checks(u) ==
    IF data_version(u) < 1 THEN "version"
    ELSE IF data_version(u) = 1 /\ data_length(u) < DATA_V1_SIZE THEN "length"
    ELSE IF u[OFF_UID + UID_SIZE] # 0 THEN "uid"
    ELSE IF u[OFF_HOSTNAME + HOSTNAME_SIZE] # 0 THEN "hostname"
    ELSE IF u[OFF_PASSWORD + PASSWORD_SIZE] # 0 THEN "password"
    ELSE "ok"

\* mutant of Validate: the checksum is not compared
ValidateUnchecked(u, checksum) == Checks(u)

\* the checks of header and data after the read
Validate(u, checksum) ==
    IF Field(u, OFF_CHECKSUM, 4) # checksum THEN "checksum" ELSE Checks(u)

\* u is not initialized: a byte the loops have not stored holds what the
\* stack held, which may be any value.  Such a byte is kept as Unread, a
\* value no stored byte has
Unread == 256

\* u as read_eeprom finds it
Uninitialized == [i \in 1 .. EEPROM_SIZE |-> Unread]

\* the bytes of u that Checks tests for NUL
Terminators == {OFF_UID + UID_SIZE, OFF_HOSTNAME + HOSTNAME_SIZE, OFF_PASSWORD + PASSWORD_SIZE}

\* what the tests for NUL may find in u: a terminator that was never stored
\* is NUL or is not, the other bytes are not looked at
Settled(u) ==
    {[i \in 1 .. Len(u) |-> IF i \in nul THEN 0 ELSE u[i]] :
        nul \in SUBSET {i \in Terminators : i <= Len(u) /\ u[i] = Unread}}

\* result: "none" while reading, then an I/O error, a failed check or "ok";
\* u: the local u, <<>> while read_eeprom is not running
RdIdle == [runs |-> 0, u |-> <<>>, checksum |-> ZERO32, result |-> "none",
           before |-> <<>>, validBefore |-> FALSE]

IoErrors == {"open_err", "slave_err", "address_err", "header_err", "data_err"}

\* mutant of ValidAtStart: the flag keeps its value until the read is over
ValidAtStartKept == eeprom_valid

\* eeprom_valid = false, the first statement of read_eeprom
ValidAtStart == FALSE

\* read_eeprom() is called
ReadEepromCall ==
    /\ pc \in {"idle", "re_returned"}
    /\ rd.runs < MaxRuns
    /\ rd' = [RdIdle EXCEPT !.runs = rd.runs + 1, !.u = Uninitialized,
                            !.before = eeprom, !.validBefore = eeprom_valid]
    /\ eeprom_valid' = ValidAtStart
    /\ pc' = "re_open"
    /\ UNCHANGED <<eeprom, notRd>>

\* open of EEPROM_PATH, ioctl I2C_SLAVE, i2c_write16 of the read address
ReOpen ==
    /\ pc = "re_open"
    /\ \E io \in {"ok", "open_err", "slave_err", "address_err"} :
         /\ pc' = IF io = "ok" THEN "re_header" ELSE "re_returned"
         /\ rd' = [rd EXCEPT !.result = IF io = "ok" THEN @ ELSE io,
                              !.u = IF io = "ok" THEN @ ELSE <<>>]
    /\ UNCHANGED <<eeprom, eeprom_valid, notRd>>

\* the header loop and the test of the magic number; fail is the address
\* whose i2c_read8 fails, -1 for none
ReHeader ==
    /\ pc = "re_header"
    /\ \E fail \in -1 .. HEADER_SIZE - 1 :
         IF fail >= 0
         THEN /\ rd' = [rd EXCEPT !.result = "header_err", !.u = <<>>]
              /\ pc' = "re_returned"
         ELSE /\ rd' = [rd EXCEPT !.u = IF Field(HeaderRead(rd.u, rom), 0, 4) # EEPROM_MAGIC
                                      THEN <<>> ELSE HeaderRead(rd.u, rom),
                           !.result = IF Field(HeaderRead(rd.u, rom), 0, 4) # EEPROM_MAGIC
                                      THEN "magic" ELSE @]
              /\ pc' = IF Field(HeaderRead(rd.u, rom), 0, 4) # EEPROM_MAGIC
                       THEN "re_returned" ELSE "re_data"
    /\ UNCHANGED <<eeprom, eeprom_valid, notRd>>

\* the addresses of the data at which an I/O error is tried
DataFailPoints(length) ==
    {HEADER_SIZE + k : k \in {0, length \div 2, length - 1} \cap (0 .. length - 1)}

\* the data loop; fail is the address whose i2c_read8 fails, the address
\* behind the data for none
ReData ==
    /\ pc = "re_data"
    /\ \E fail \in DataFailPoints(data_length(rd.u))
                    \cup {HEADER_SIZE + data_length(rd.u)} :
         IF fail < HEADER_SIZE + data_length(rd.u)
         THEN /\ rd' = [rd EXCEPT !.result = "data_err", !.u = <<>>]
              /\ pc' = "re_returned"
         ELSE /\ rd' = [rd EXCEPT !.u = DataRead(rd.u, rom),
                                  !.checksum = DataChecksum(rd.u, rom)]
              /\ pc' = "re_check"
    /\ UNCHANGED <<eeprom, eeprom_valid, notRd>>

\* the checks, on u as the tests for NUL find it, and the copy into the
\* static eeprom when all of them pass
ReCheck ==
    /\ pc = "re_check"
    /\ \E u \in Settled(rd.u) :
         /\ rd' = [rd EXCEPT !.result = Validate(u, rd.checksum), !.u = <<>>]
         /\ IF Validate(u, rd.checksum) = "ok"
            THEN /\ eeprom' = u
                 /\ eeprom_valid' = TRUE
            ELSE UNCHANGED <<eeprom, eeprom_valid>>
    /\ pc' = "re_returned"
    /\ UNCHANGED notRd


(***************************************************************************)
(* replace_password                                                        *)
(***************************************************************************)
\* the three buffers written to SHADOW_TMP_PATH: the file up to
\* encrypted_begin, the record's password, the file from encrypted_end on
TmpParts(buffer, begin, end, password) ==
    <<SubSeq(buffer, 1, begin - 1), password, SubSeq(buffer, end, Len(buffer))>>

RpIdle == [runs |-> 0, st |-> NoFile, buffer |-> <<>>, orig |-> <<>>,
           find |-> Skip("not run"), part |-> 1]

\* replace_password() is called: it returns at once without a valid record
ReplacePasswordCall ==
    /\ pc \in {"idle", "rp_returned"}
    /\ rp.runs < MaxRuns
    /\ rp' = [RpIdle EXCEPT !.runs = rp.runs + 1, !.orig = fs[SHADOW_PATH].data]
    /\ pc' = IF ~eeprom_valid \/ data_version(eeprom) < 1
             THEN "rp_returned" ELSE "rp_open"
    /\ UNCHANGED <<fs, notRp>>

RpOpenIo == {"ok", "open_err", "fstat_err", "malloc_err", "read_err", "short_read"}

\* open, fstat, malloc and read of SHADOW_PATH, each fatal when it fails
RpOpen ==
    /\ pc = "rp_open"
    /\ \E io \in RpOpenIo :
         /\ ~fs[SHADOW_PATH].exists => io = "open_err"
         /\ io = "short_read" => Len(fs[SHADOW_PATH].data) > 0
         /\ IF io = "ok" /\ Len(fs[SHADOW_PATH].data) <= SHADOW_BUFFER_LENGTH
            THEN /\ rp' = [rp EXCEPT !.st = fs[SHADOW_PATH],
                                     !.buffer = fs[SHADOW_PATH].data]
                 /\ pc' = "rp_find"
            ELSE /\ pc' = "panic"
                 /\ UNCHANGED rp
    /\ UNCHANGED <<fs, notRp>>

\* encrypted[encrypted_used] = '\0' was executed with encrypted_used not
\* below the size of encrypted: the NUL was stored behind the array
StoreBehindEncrypted(find) == find.encrypted_used >= SHADOW_ENCRYPTED_LENGTH

\* the search of the entry and the test of its password.  A store behind
\* encrypted has no defined effect: the function goes on with the string as
\* it would be with the NUL in place, or the process is stopped
RpFind ==
    /\ pc = "rp_find"
    /\ \E find \in {FindEntry(rp.buffer, inp.lib)} :
         \E stopped \in {FALSE, StoreBehindEncrypted(find)} :
           /\ rp' = [rp EXCEPT !.find = find]
           /\ pc' = CASE stopped -> "rp_crashed"
                      [] find.outcome = "replace" -> "rp_backup_create"
                      [] find.outcome = "skip" -> "rp_returned"
                      [] OTHER -> "panic"
    /\ UNCHANGED <<fs, notRp>>

RpBackupCreate ==
    /\ pc = "rp_backup_create"
    /\ \E io \in CreateIo :
         /\ fs' = [fs EXCEPT ![SHADOW_BACKUP_PATH] =
                      create_file(@, rp.st.uid, rp.st.gid, rp.st.mode, io)]
         /\ pc' = IF io = "ok" THEN "rp_backup_write" ELSE "panic"
    /\ UNCHANGED <<rp, notRp>>

RpBackupWrite ==
    /\ pc = "rp_backup_write"
    /\ \E n \in -1 .. Len(rp.buffer) :
         /\ fs' = [fs EXCEPT ![SHADOW_BACKUP_PATH] = robust_write(@, rp.buffer, n)]
         /\ pc' = IF robust_write_ok(rp.buffer, n) THEN "rp_backup_fsync" ELSE "panic"
    /\ UNCHANGED <<rp, notRp>>

\* fsync(fd), whose result is not looked at, and close(fd)
RpBackupFsync ==
    /\ pc = "rp_backup_fsync"
    /\ \E rc \in FsyncResults :
         fs' = [fs EXCEPT ![SHADOW_BACKUP_PATH] = Fsync(@, rc)]
    /\ pc' = "rp_tmp_create"
    /\ UNCHANGED <<rp, notRp>>

RpTmpCreate ==
    /\ pc = "rp_tmp_create"
    /\ \E io \in CreateIo :
         /\ fs' = [fs EXCEPT ![SHADOW_TMP_PATH] =
                      create_file(@, rp.st.uid, rp.st.gid, rp.st.mode, io)]
         /\ pc' = IF io = "ok" THEN "rp_tmp_write" ELSE "panic"
    /\ UNCHANGED <<rp, notRp>>

\* the three robust_write calls on SHADOW_TMP_PATH, one after the other
RpTmpWrite ==
    /\ pc = "rp_tmp_write"
    /\ LET buf == TmpParts(rp.buffer, rp.find.begin, rp.find.end,
                            encrypted_password(eeprom))[rp.part]
       IN \E n \in -1 .. Len(buf) :
            /\ fs' = [fs EXCEPT ![SHADOW_TMP_PATH] = robust_write(@, buf, n)]
            /\ pc' = IF ~robust_write_ok(buf, n) THEN "panic"
                     ELSE IF rp.part = 3 THEN "rp_tmp_fsync" ELSE "rp_tmp_write"
            /\ rp' = [rp EXCEPT !.part = IF robust_write_ok(buf, n) /\ @ < 3
                                         THEN @ + 1 ELSE @]
    /\ UNCHANGED notRp

\* fsync(fd), whose result is not looked at, and close(fd)
RpTmpFsync ==
    /\ pc = "rp_tmp_fsync"
    /\ \E rc \in FsyncResults :
         fs' = [fs EXCEPT ![SHADOW_TMP_PATH] = Fsync(@, rc)]
    /\ pc' = "rp_rename"
    /\ UNCHANGED <<rp, notRp>>

RpRename ==
    /\ pc = "rp_rename"
    /\ \E io \in {"ok", "rename_err"} :
         IF io = "ok"
         THEN /\ fs' = RenameFs(fs, SHADOW_TMP_PATH, SHADOW_PATH)
              /\ pc' = "rp_returned"
         ELSE /\ UNCHANGED fs
              /\ pc' = "panic"
    /\ UNCHANGED <<rp, notRp>>

\* the password database: lines before the entry, the entry "tng:" with its
\* password field and the rest of the file from the end of that field on
LineRoot == <<114, 111, 111, 116, 58, 42, 58, 49, 58, 10>>
LineXtng == <<120, 116, 110, 103, 58, 33, 97, 98, 58, 10>>
LineBob == <<98, 111, 98, 58, 120, 58, 50, 58, 10>>
RestOfLine == <<58, 49, 58, 10>>

Pres == {<<>>, LineRoot \o LineXtng}
Rests == {RestOfLine, RestOfLine \o LineBob}

\* a library without failure tokens whose key derivations get a gigabyte
Plain == [tokens |-> FALSE, memory |-> 2 ^ 23]

\* the locked default password under the salts "ab", "$6$ab",
\* "$6$rounds=5000$a-b" and "$y$j9T$abcd"
LockedDefaults ==
    {<<BANG>> \o crypt_r(DEFAULT_PASSWORD, <<97, 98>>, Plain),
     <<BANG>> \o crypt_r(DEFAULT_PASSWORD, <<DOLLAR, 54, DOLLAR, 97, 98>>, Plain),
     <<BANG>> \o crypt_r(DEFAULT_PASSWORD,
                         <<DOLLAR, 54, DOLLAR, 114, 111, 117, 110, 100, 115, 61,
                           53, 48, 48, 48, DOLLAR, 97, 45, 98>>, Plain),
     <<BANG>> \o crypt_r(DEFAULT_PASSWORD,
                         <<DOLLAR, 121, DOLLAR, 106, 57, 84, DOLLAR, 97, 98, 99, 100>>,
                         Plain)}

\* device passwords that are locked values themselves: "!a", and the locked
\* hash of the default password under the salt "cd"
LockedPasswords ==
    {<<BANG, 97>>, <<BANG>> \o crypt_r(DEFAULT_PASSWORD, <<99, 100>>, Plain)}

\* n times the character c
Run(c, n) == [i \in 1 .. n |-> c]

\* locked hash values of SHADOW_ENCRYPTED_LENGTH - 1, SHADOW_ENCRYPTED_LENGTH
\* and SHADOW_ENCRYPTED_LENGTH + 1 characters under the salt "ab", and one of
\* SHADOW_ENCRYPTED_LENGTH characters whose last character is its last '$'
LongFields ==
    {<<BANG, 97, 98>> \o Run(81, n - 2) :
        n \in SHADOW_ENCRYPTED_LENGTH - 1 .. SHADOW_ENCRYPTED_LENGTH + 1}
    \cup {<<BANG, DOLLAR, 54, DOLLAR>> \o Run(97, SHADOW_ENCRYPTED_LENGTH - 4)
             \o <<DOLLAR>>}

\* password fields by the case of replace_password they are
FieldsOf(kind) ==
    CASE kind = "default" -> LockedDefaults
      [] kind = "custom" -> {<<BANG, 97, 98, 81, 81, 81>>,
                             <<BANG, DOLLAR, 54, DOLLAR, 97, 98, DOLLAR, 81, 81>>}
      [] kind = "star" -> {<<STAR>>, <<STAR, 76, 75>>}
      [] kind = "unlocked" ->
           {<<>>, <<120>>,
            crypt_r(DEFAULT_PASSWORD, <<DOLLAR, 54, DOLLAR, 97, 98>>, Plain)}
      [] kind = "malformed" -> {<<BANG>>, <<BANG, 97>>, <<BANG, DOLLAR, DOLLAR>>}
      [] kind = "long" -> LongFields

Kinds == {"default", "custom", "star", "unlocked", "malformed", "long"}

NoInput == [kind |-> "none", pre |-> <<>>, field |-> <<>>, rest |-> <<>>,
            backup |-> NoFile, password |-> <<>>, lib |-> Plain]

\* databases with an entry of the account, those whose entry ends the file
\* without a colon, and those without an entry
ShadowInputs ==
    UNION {{[kind |-> k, pre |-> pre, field |-> f, rest |-> rest] :
               pre \in Pres, f \in FieldsOf(k), rest \in Rests} : k \in Kinds}
    \cup {[kind |-> "noend", pre |-> pre, field |-> f, rest |-> <<>>] :
             pre \in Pres, f \in LockedDefaults \cup {<<STAR>>, <<120>>}}
    \cup {[kind |-> "absent", pre |-> pre, field |-> <<>>, rest |-> LineBob] :
             pre \in Pres}

ShadowData(i) ==
    IF i.kind = "absent" THEN i.pre \o i.rest
    ELSE i.pre \o ACCOUNT_NAME \o <<COLON>> \o i.field \o i.rest

\* mode 0640, group shadow
MODE_0640 == 416
GID_SHADOW == 42

\* the files of the database before the run
ShadowFs0(i) ==
    [p \in Paths |->
        IF p = SHADOW_PATH
        THEN RegFile(S_IFREG + MODE_0640, 0, GID_SHADOW, ShadowData(i))
        ELSE IF p = SHADOW_BACKUP_PATH THEN i.backup ELSE NoFile]

InitPw ==
    /\ \E i \in ShadowInputs,
          bk \in {NoFile, RegFile(S_IFREG + MODE_0640, 0, GID_SHADOW, LineRoot)},
          pw \in Passwords \cup LockedPasswords \cup {NULL},
          tokens \in BOOLEAN, memory \in {0, Plain.memory} :
         /\ inp = [kind |-> i.kind, pre |-> i.pre, field |-> i.field,
                   rest |-> i.rest, backup |-> bk, password |-> pw,
                   lib |-> [tokens |-> tokens, memory |-> memory]]
         /\ eeprom_valid = (pw # NULL)
         /\ eeprom = IF pw = NULL THEN Zeros(EEPROM_SIZE) ELSE StoredRecord(pw)
    /\ fs = ShadowFs0(inp)
    /\ pc = "idle"
    /\ rom = <<>>
    /\ img = NoImage
    /\ rd = RdIdle
    /\ mnt = MntIdle
    /\ hw = HwIdle
    /\ rtc = RtcIdle
    /\ eth = EthIdle
    /\ mn = MainIdle
    /\ upd = UpdIdle
    /\ rp = RpIdle

NextPw ==
    \/ ReplacePasswordCall
    \/ RpOpen
    \/ RpFind
    \/ RpBackupCreate
    \/ RpBackupWrite
    \/ RpBackupFsync
    \/ RpTmpCreate
    \/ RpTmpWrite
    \/ RpTmpFsync
    \/ RpRename
    \/ PowerLoss

SpecPw == InitPw /\ [][NextPw]_vars

(***************************************************************************)
(* Claims about replace_password, checked under SpecPw                     *)
(***************************************************************************)
\* the database with the password field of the entry replaced by the
\* record's password, every other byte kept
Migrated(i) == i.pre \o ACCOUNT_NAME \o <<COLON>> \o i.password \o i.rest

ShadowPaths == {SHADOW_PATH, SHADOW_BACKUP_PATH, SHADOW_TMP_PATH}

\* C3 as stated: with a valid record and the entry "tng:!<hash of the
\* default password>:...", after replace_password the database is the
\* original with only the field "!<hash>" replaced by the record's password,
\* and the backup is the original, byte for byte.
C3_Original ==
    (pc = "rp_returned" /\ rp.runs = 1 /\ eeprom_valid /\ inp.kind = "default")
        => /\ fs[SHADOW_PATH].data = Migrated(inp)
           /\ fs[SHADOW_BACKUP_PATH].data = ShadowData(inp)

\* C4: when the account is not present, or its password field starts with
\* '*', or does not start with '!', or is not the hash of the default
\* password, the database is left as it was and neither the backup nor the
\* temp file is created or written.
C4_SkipLeavesFiles ==
    inp.kind \in {"absent", "star", "unlocked", "custom"}
        => \A p \in ShadowPaths : fs[p] = ShadowFs0(inp)[p]

\* C4 witness: replace_password returned from the comparison with the hash of
\* the default password, having found another password
C4_Witness ==
    /\ pc = "rp_returned"
    /\ eeprom_valid
    /\ inp.kind = "custom"
    /\ rp.find.outcome = "skip"
    /\ rp.find.salt # <<>>

\* C21 as stated: when the entry of the account has no ':' after its password
\* field, replace_password ends in panic, whatever the field begins with; it
\* never returns as from a skip.
C21_Original ==
    (inp.kind = "noend" /\ rp.find.why # "not run") => rp.find.outcome = "panic"

\* C24 as stated: for every locked hash value that passes the size check,
\* the NUL behind the copied hash is stored at an index below
\* SHADOW_ENCRYPTED_LENGTH, inside encrypted, and the NUL behind the salt at
\* an index below SHADOW_ENCRYPTED_LENGTH, inside salt.
C24_Original ==
    rp.find.salt # <<>>
        => /\ rp.find.encrypted_used < SHADOW_ENCRYPTED_LENGTH
           /\ Len(rp.find.salt) < SHADOW_ENCRYPTED_LENGTH

\* C25 as stated: when replace_password runs again after a migration, that
\* is on the database the first run left migrated, with the same valid
\* record, whatever password the record carries, the database stays the
\* migrated one, the backup stays the original, byte for byte, and the run
\* does not end in panic over the entry.
C25_Original ==
    (rp.runs = 2 /\ inp.kind = "default" /\ eeprom_valid /\ pc # "off"
        /\ rp.orig = Migrated(inp) /\ rp.orig # ShadowData(inp))
        => /\ fs[SHADOW_PATH].data = Migrated(inp)
           /\ fs[SHADOW_BACKUP_PATH].data = ShadowData(inp)
           /\ rp.find.outcome # "panic"

\* the locked hash value of the entry: its password field without the '!'
LockedHash(i) == SubSeq(i.field, 2, Len(i.field))

\* the position of the last '$' in a string that has one
LastDollar(h) ==
    CHOOSE k \in 1 .. Len(h) :
        h[k] = DOLLAR /\ \A j \in k + 1 .. Len(h) : h[j] # DOLLAR

\* C22 as stated: in the first run on a database, the salt of a locked hash
\* value that does not begin with
\* '$' is its first two characters; that of one that begins with '$' is its
\* prefix up to and including the last '$'.
C22_Original ==
    (rp.runs = 1 /\ rp.find.salt # <<>>) =>
        rp.find.salt = IF LockedHash(inp)[1] # DOLLAR
                       THEN SubSeq(LockedHash(inp), 1, 2)
                       ELSE SubSeq(LockedHash(inp), 1, LastDollar(LockedHash(inp)))

\* C22 amended: in the first run on a database, the salt of a locked hash
\* value that does not begin with '$' is its first two characters; that of
\* one that begins with '$' is its prefix up to the last '$', that '$' not
\* included.
C22_SaltPrefix ==
    (rp.runs = 1 /\ rp.find.salt # <<>>) =>
        rp.find.salt = IF LockedHash(inp)[1] # DOLLAR
                       THEN SubSeq(LockedHash(inp), 1, 2)
                       ELSE SubSeq(LockedHash(inp), 1,
                                   LastDollar(LockedHash(inp)) - 1)

\* C22 witness: the salt "$6$ab" was taken from the hash "$6$ab$QQ" of a
\* password that is not the default one
C22_Witness ==
    /\ pc = "rp_returned"
    /\ inp.field = <<BANG, DOLLAR, 54, DOLLAR, 97, 98, DOLLAR, 81, 81>>
    /\ rp.find.salt = <<DOLLAR, 54, DOLLAR, 97, 98>>

\* C5 as stated: in replace_password the backup is completely written and
\* fsynced before the temp file is created, and the database path changes only in the
\* rename, after the temp file was completely written and fsynced; so at any
\* point, power loss included, the database holds the full original or the
\* full migrated content, and when it holds the migrated content the backup
\* holds the full original.
C5_Original ==
    [][ rp'.runs = 1 =>
          /\ fs'[SHADOW_PATH].data \in {ShadowData(inp), Migrated(inp)}
          /\ fs'[SHADOW_TMP_PATH].exists
               => /\ fs'[SHADOW_BACKUP_PATH].data = ShadowData(inp)
                  /\ fs'[SHADOW_BACKUP_PATH].synced
          /\ fs'[SHADOW_PATH] # fs[SHADOW_PATH]
               => /\ pc = "rp_rename"
                  /\ fs[SHADOW_TMP_PATH].data = Migrated(inp)
                  /\ fs[SHADOW_TMP_PATH].synced
          /\ fs'[SHADOW_PATH].data # ShadowData(inp)
               => fs'[SHADOW_BACKUP_PATH].data = ShadowData(inp) ]_vars

(***************************************************************************)
(* update_file on its own                                                  *)
(***************************************************************************)
InitUpd ==
    /\ \E f \in InitTargets :
         fs = [p \in Paths |-> IF p = UID_PATH THEN f ELSE NoFile]
    /\ pc = "idle"
    /\ upd = UpdIdle
    /\ eeprom = Zeros(EEPROM_SIZE)
    /\ eeprom_valid = FALSE
    /\ rp = RpIdle
    /\ inp = NoInput
    /\ rom = <<>>
    /\ img = NoImage
    /\ rd = RdIdle
    /\ mnt = MntIdle
    /\ hw = HwIdle
    /\ rtc = RtcIdle
    /\ eth = EthIdle
    /\ mn = MainIdle

NextUpd ==
    \/ \E p \in UpdPaths, c \in Contents : UpdateFileCall(p, c)
    \/ UpdateFileCheck
    \/ UpdateFileCreate
    \/ UpdateFileWrite
    \/ UpdateFileFsync
    \/ UpdateFileRename
    \/ PowerLoss

SpecUpd == InitUpd /\ [][NextUpd]_vars

(***************************************************************************)
(* Claims about update_file, checked under SpecUpd                         *)
(***************************************************************************)
\* the file update_file is to leave at path
WantedFile(content) == RegFile(S_IFREG + MODE_0444, 0, 0, content)

\* a file as a reader finds it, durable or not
Visible(f) == [f EXCEPT !.synced = TRUE]

\* C1 as stated: during update_file(path, content), power loss included, the
\* file at path is either the complete file it was at the call or the
\* complete new file; path changes only in the rename step, and then the temp
\* file holds the whole content and has been forced to durable storage.
C1_Original ==
    [][ /\ upd'.content # <<>>
             => fs'[upd'.path] \in {upd'.old, WantedFile(upd'.content)}
        /\ fs'[upd.path] # fs[upd.path]
             => /\ pc = "uf_rename"
                /\ fs[TmpPath(upd.path)] = WantedFile(upd.content)
                /\ fs'[upd.path] = WantedFile(upd.content) ]_vars

\* two calls in a row with the same path and content have returned
TwiceSame == pc = "idle" /\ upd.returned = 2 /\ upd.prev = upd.content

\* C2 as stated: two calls in a row with the same path and content perform
\* exactly one write+rename, the second call creating and renaming nothing;
\* and a call that returned leaves exactly its content in the file.
C2_Original ==
    /\ TwiceSame => /\ upd.creates = 0 /\ upd.renames = 0
                    /\ upd.prevRenames + upd.renames = 1
    /\ (pc = "idle" /\ upd.returned >= 1) => fs[upd.path].data = upd.content

\* C2 amended: a call that returned leaves the wanted file with exactly its
\* content; it created no temp file and renamed nothing if the wanted file
\* was there already and its stat, open and read succeeded, and wrote and
\* renamed once otherwise; the second of two calls in a row with the same
\* content finds the wanted file there.
C2_Idempotent ==
    (pc = "idle" /\ upd.returned >= 1) =>
        /\ Visible(fs[upd.path]) = WantedFile(upd.content)
        /\ (upd.matched /\ ~upd.fault) => (upd.creates = 0 /\ upd.renames = 0)
        /\ ~(upd.matched /\ ~upd.fault) => (upd.creates = 1 /\ upd.renames = 1)
        /\ TwiceSame => upd.matched

\* C2 witness: the second of two calls with the same content returned without
\* writing, after the first one wrote and renamed
C2_Witness ==
    /\ TwiceSame
    /\ upd.prevRenames = 1
    /\ upd.renames = 0
    /\ upd.creates = 0

\* C18 as stated: in update_file a failed or short read of the existing
\* file, a temp file that could not be created, a short write and a failed
\* rename each end in panic; after a failed or short read the update does not
\* go on.  (Power loss is no step of the program.)
C18_Original ==
    [][ pc' # "off" =>
          /\ (pc = "uf_check" /\ upd'.io \in {"read_err", "short_read"})
                => pc' = "panic"
          /\ (pc = "uf_create"
                 /\ fs'[TmpPath(upd.path)]
                      # create_file(fs[TmpPath(upd.path)], 0, 0, MODE_0444, "ok"))
                => pc' = "panic"
          /\ (pc = "uf_write" /\ fs'[TmpPath(upd.path)].data # upd.content)
                => pc' = "panic"
          /\ (pc = "uf_rename" /\ Visible(fs'[upd.path]) # WantedFile(upd.content))
                => pc' = "panic" ]_vars


(***************************************************************************)
(* read_eeprom on its own: the chips it may find                           *)
(***************************************************************************)
\* the data of the sample record, with the password "$6$xy$Q"
SampleData ==
    DataV1(SampleDate, SampleUid, SampleHostname, <<36, 54, 36, 120, 121, 36, 81>>,
           SampleEthernet)

\* a version-1 record as the production tool writes it
Record1 == GoodImage(1, SampleData)

\* eight further bytes X with crc32 over {447, 1} + data + X equal to crc32
\* over {439, 1} + data
CollisionTail == <<1, 2, 3, 4, 118, 195, 6, 120>>

\* the record of length 439 on a chip that holds CollisionTail behind it
Record1Tail == Record1 \o CollisionTail

\* the record of length 447 whose data end with CollisionTail
Record1Long == GoodImage(1, SampleData \o CollisionTail)

\* eight further bytes Y with crc32 over {447, 1} + data + Y equal to crc32
\* over {191, 1} + the first 191 bytes of data
ShortTail == <<5, 6, 7, 8, 47, 109, 59, 205>>

\* the record of length 447 whose data end with ShortTail: with bit 8 of
\* its data_length flipped it is a record of length 191 with a matching
\* checksum
Record1Short == GoodImage(1, SampleData \o ShortTail)

\* an image with one bit flipped: bit of the byte at offset off
FlipBit(image, off, bit) == [image EXCEPT ![off + 1] = Xor8(@, 2 ^ bit)]

\* the part of the record a byte offset belongs to
FieldAt(off) ==
    IF off < OFF_CHECKSUM THEN "magic"
    ELSE IF off < OFF_LENGTH THEN "checksum"
    ELSE IF off < OFF_VERSION THEN "length"
    ELSE IF off = OFF_VERSION THEN "version"
    ELSE "payload"

\* the offsets at which bits are flipped: the whole header, and in the data
\* the first byte, the terminators, a byte of the password, the last byte
FlipOffsets ==
    (0 .. HEADER_SIZE - 1)
    \cup {OFF_DATE, OFF_UID + UID_SIZE - 1, OFF_HOSTNAME + HOSTNAME_SIZE - 1,
          OFF_PASSWORD + 1, OFF_PASSWORD + PASSWORD_SIZE - 1, EEPROM_SIZE - 1}

Flips(base, offsets) ==
    {[img |-> [kind |-> "flip", field |-> FieldAt(off)], bytes |-> FlipBit(base, off, bit)] :
        off \in offsets, bit \in 0 .. 7}

Chip(kind, bytes) == [img |-> [kind |-> kind, field |-> "none"], bytes |-> bytes]

\* the chips: well-formed records, their one-bit variants, records of other
\* versions and lengths with a matching checksum, unterminated fields, and
\* a blank chip
RomInputs ==
    {Chip("record", Record1), Chip("record", Record1Tail), Chip("record", Record1Long),
     Chip("record", Record1Short)}
    \cup Flips(Record1, FlipOffsets)
    \cup Flips(Record1Tail, {OFF_LENGTH, OFF_LENGTH + 1})
    \cup Flips(Record1Long, {OFF_LENGTH, OFF_LENGTH + 1})
    \cup Flips(Record1Short, {OFF_LENGTH, OFF_LENGTH + 1})
    \cup Flips(GoodImage(2, SampleData), {OFF_LENGTH, OFF_LENGTH + 1})
    \cup {Chip("v0", GoodImage(0, SampleData)),
          Chip("v1short", GoodImage(1, SubSeq(SampleData, 1, DATA_V1_SIZE - 1))),
          Chip("v2", GoodImage(2, SampleData)),
          Chip("v2short", GoodImage(2, SubSeq(SampleData, 1, OFF_ETHERNET - HEADER_SIZE))),
          Chip("v2empty", GoodImage(2, <<>>)),
          Chip("uid", GoodImage(1, DataV1(SampleDate, SampleUid \o <<53>>, SampleHostname,
                                           <<90, 107, 57>>, SampleEthernet))),
          Chip("hostname", GoodImage(1, DataV1(SampleDate, SampleUid,
                                                [i \in 1 .. HOSTNAME_SIZE |-> 97],
                                                <<90, 107, 57>>, SampleEthernet))),
          Chip("password", GoodImage(1, DataV1(SampleDate, SampleUid, SampleHostname,
                                                [i \in 1 .. PASSWORD_SIZE |-> 97],
                                                SampleEthernet))),
          Chip("blank", <<>>)}

InitRom ==
    /\ fs = [p \in Paths |-> NoFile]
    /\ pc = "idle"
    /\ upd = UpdIdle
    /\ eeprom = Zeros(EEPROM_SIZE)
    /\ eeprom_valid = FALSE
    /\ rp = RpIdle
    /\ inp = NoInput
    /\ \E c \in RomInputs :
         /\ rom = c.bytes
         /\ img = c.img
    /\ rd = RdIdle
    /\ mnt = MntIdle
    /\ hw = HwIdle
    /\ rtc = RtcIdle
    /\ eth = EthIdle
    /\ mn = MainIdle

NextRom == ReadEepromCall \/ ReOpen \/ ReHeader \/ ReData \/ ReCheck

SpecRom == InitRom /\ [][NextRom]_vars

\* the header as it lies on the chip
ChipHeader == HeaderRead(Zeros(EEPROM_SIZE), rom)

\* C6: the validity flag is false and the stored record untouched from the
\* start of read_eeprom until every check has passed; an I/O error at open,
\* at the address setup or at any byte of header or data ends the read with
\* the record absent and the stored record unchanged; and a record that is
\* valid holds, at every offset its data_length covers, the byte of the chip
C6_NoPartialRecord ==
    /\ pc \in {"re_open", "re_header", "re_data", "re_check"}
         => ~eeprom_valid /\ eeprom = rd.before
    /\ pc = "re_returned" /\ rd.result \in IoErrors
         => ~eeprom_valid /\ eeprom = rd.before
    /\ pc = "re_returned" /\ eeprom_valid
         => /\ rd.result = "ok"
            /\ \A i \in 1 .. Min(EEPROM_SIZE, HEADER_SIZE + data_length(eeprom)) :
                 eeprom[i] = ReadByte(rom, i - 1)

\* a second read fails at a byte of the data after a first one stored a record
C6_Witness ==
    /\ pc = "re_returned"
    /\ rd.runs = 2
    /\ rd.validBefore
    /\ rd.result = "data_err"
    /\ rd.before = SubSeq(Record1, 1, EEPROM_SIZE)
    /\ ~eeprom_valid

\* C7: a record with data_version < 1 or with data_length below the size of
\* the version-1 data is never accepted, whatever its data_version
C7_ShortOrOldRejected ==
    pc = "re_returned"
    /\ (data_version(ChipHeader) < 1 \/ data_length(ChipHeader) < DATA_V1_SIZE)
       => ~eeprom_valid

\* C8 as stated: the stored checksum of an accepted record is the checksum
\* over {data_length, data_version} and all the data, and every one-bit
\* variant of a record is rejected
C8_Original ==
    /\ pc = "re_returned" /\ eeprom_valid
         => Field(ChipHeader, OFF_CHECKSUM, 4)
              = RecordChecksum(data_length(ChipHeader), data_version(ChipHeader),
                               Payload(rom, data_length(ChipHeader)))
    /\ pc = "re_returned" /\ img.kind = "flip" => ~eeprom_valid

\* the checksum on the chip is the checksum over the data_length and the
\* data_version on the chip and the bytes that data_length delimits
ChipChecksumMatches ==
    Field(ChipHeader, OFF_CHECKSUM, 4)
        = RecordChecksum(data_length(ChipHeader), data_version(ChipHeader),
                         Payload(rom, data_length(ChipHeader)))

\* C8: the stored checksum of an accepted record is the checksum over
\* {data_length, data_version} and all data_length bytes of data, and every
\* variant of a record that differs in one bit of the magic number, the
\* checksum, the version or the data is rejected; a variant that differs in
\* one bit of data_length is rejected when its checksum does not match the
\* data of the changed length, and when it is of version 1 and the changed
\* length is below the size of the version-1 data; a variant of a version-1
\* record that is read without an I/O error is accepted when its checksum
\* matches and the changed length is not below that size
C8_BitFlipsRejected ==
    /\ pc = "re_returned" /\ eeprom_valid => ChipChecksumMatches
    /\ pc = "re_returned" /\ img.kind = "flip" /\ img.field # "length" => ~eeprom_valid
    /\ pc = "re_returned" /\ img.kind = "flip" /\ img.field = "length"
         => /\ ~ChipChecksumMatches => ~eeprom_valid
            /\ (data_version(ChipHeader) = 1 /\ data_length(ChipHeader) < DATA_V1_SIZE)
                  => ~eeprom_valid
            /\ (/\ data_version(ChipHeader) = 1
                /\ rd.result \notin IoErrors
                /\ ChipChecksumMatches
                /\ data_length(ChipHeader) >= DATA_V1_SIZE) => eeprom_valid

\* a variant with a flipped bit in the data is read to the end and rejected
\* for its checksum
C8_Witness ==
    /\ pc = "re_returned"
    /\ img.kind = "flip"
    /\ img.field = "payload"
    /\ rd.result = "checksum"
    /\ ~eeprom_valid

\* C23: the data loop puts every one of the data_length bytes of the chip
\* into the checksum, stores the bytes whose address lies below the size of
\* the record structure and leaves the bytes behind the data as they were;
\* the record buffer never extends past the size of the structure
C23_DataLoopBounded ==
    /\ rd.u # <<>> => Len(rd.u) = EEPROM_SIZE
    /\ pc = "re_check"
         => /\ rd.checksum
                 = RecordChecksum(data_length(ChipHeader), data_version(ChipHeader),
                                  Payload(rom, data_length(ChipHeader)))
            /\ rd.u = [i \in 1 .. EEPROM_SIZE |->
                          IF i <= HEADER_SIZE + data_length(ChipHeader)
                          THEN ReadByte(rom, i - 1) ELSE Unread]

\* a record whose data is longer than the version-1 data has been read: its
\* checksum covers the bytes behind the structure, and it is accepted
C23_Witness ==
    /\ pc = "re_returned"
    /\ rom = Record1Long
    /\ data_length(ChipHeader) > DATA_V1_SIZE
    /\ rd.result = "ok"
    /\ eeprom_valid
    /\ eeprom = SubSeq(Record1Long, 1, EEPROM_SIZE)



(***************************************************************************)
(* robust_mount on its own                                                 *)
(***************************************************************************)
\* root= and rootfstype= of the command line, or their defaults
\* "/dev/mmcblk0p2", "/dev/sda1"
Roots == {<<47, 100, 101, 118, 47, 109, 109, 99, 98, 108, 107, 48, 112, 50>>,
          <<47, 100, 101, 118, 47, 115, 100, 97, 49>>}
\* "ext4", "btrfs"
RootTypes == {<<101, 120, 116, 52>>, <<98, 116, 114, 102, 115>>}

InitMnt ==
    /\ fs = [p \in Paths |-> NoFile]
    /\ pc = "idle"
    /\ upd = UpdIdle
    /\ eeprom = Zeros(EEPROM_SIZE)
    /\ eeprom_valid = FALSE
    /\ rp = RpIdle
    /\ inp = NoInput
    /\ rom = <<>>
    /\ img = NoImage
    /\ rd = RdIdle
    /\ mnt = MntIdle
    /\ hw = HwIdle
    /\ rtc = RtcIdle
    /\ eth = EthIdle
    /\ mn = MainIdle

NextMnt ==
    \/ \E source \in Roots, type \in RootTypes : RobustMountCall(source, type)
    \/ MntNewContext
    \/ MntSetup
    \/ MntMount
    \/ MntSleep

SpecMnt == InitMnt /\ [][NextMnt]_vars

\* every result so far is "source not found"
OnlyNoSource(results) == \A i \in 1 .. Len(results) : results[i] = "nosource"

\* C9: when the mount reports "source not found" N times and then succeeds,
\* robust_mount returns after N + 1 attempts with N retries counted and N
\* sleeps of 500 ms, one after each failed attempt; and as long as every
\* attempt has reported "source not found", robust_mount has not returned,
\* the mount has not led to panic, and each such result is followed by one
\* sleep and one more attempt
C9_MountRetry ==
    /\ pc = "mnt_returned"
         => /\ mnt.results = [i \in 1 .. mnt.retries + 1 |->
                                 IF i <= mnt.retries THEN "nosource" ELSE "ok"]
            /\ mnt.sleeps = mnt.retries
            /\ mnt.slept = BACKOFF_MSEC * mnt.retries
            /\ mnt.fatal = "none"
    /\ OnlyNoSource(mnt.results)
         => /\ pc # "mnt_returned"
            /\ mnt.fatal # "mnt_context_mount"
            /\ mnt.sleeps = mnt.retries
            /\ pc = "mnt_sleep" => Len(mnt.results) = mnt.retries + 1
            /\ pc \in {"mnt_new", "mnt_setup", "mnt_mount"} => Len(mnt.results) = mnt.retries

\* the source is missing twice and the third attempt mounts it
C9_Witness ==
    /\ pc = "mnt_returned"
    /\ mnt.results = <<"nosource", "nosource", "ok">>
    /\ mnt.retries = 2
    /\ mnt.slept = 2 * BACKOFF_MSEC

\* C10: once mnt_context_mount has returned an error other than "source not
\* found", on the first or on a later attempt, robust_mount is in panic,
\* with no attempt and no sleep after that error
C10_OtherErrorFatal ==
    mnt.results # <<>> /\ mnt.results[Len(mnt.results)] = "error"
       => /\ pc = "panic"
          /\ mnt.fatal = "mnt_context_mount"
          /\ OnlyNoSource(SubSeq(mnt.results, 1, Len(mnt.results) - 1))
          /\ mnt.sleeps = Len(mnt.results) - 1
          /\ mnt.retries = Len(mnt.results) - 1

\* the second attempt fails with another error
C10_Witness ==
    /\ pc = "panic"
    /\ mnt.results = <<"nosource", "error">>
    /\ mnt.sleeps = 1
    /\ mnt.retries = 1


(***************************************************************************)
(* rtc_hctosys on its own                                                  *)
(***************************************************************************)
InitRtc ==
    /\ fs = [p \in Paths |-> NoFile]
    /\ pc = "idle"
    /\ upd = UpdIdle
    /\ eeprom = Zeros(EEPROM_SIZE)
    /\ eeprom_valid = FALSE
    /\ rp = RpIdle
    /\ inp = NoInput
    /\ rom = <<>>
    /\ img = NoImage
    /\ rd = RdIdle
    /\ mnt = MntIdle
    /\ \E t \in {-3, 58, 59, 1000} : hw = [HwIdle EXCEPT !.hc = t]
    /\ rtc = RtcIdle
    /\ eth = EthIdle
    /\ mn = MainIdle

NextRtc == RtcCall \/ RtcOpen \/ RtcPoll \/ RtcSet

SpecRtc == InitRtc /\ [][NextRtc]_vars

\* C20: rtc_hctosys never ends in panic; the system clock is set only from
\* a reading whose tm_sec differs from that of the first reading; the loop
\* is left once more than 3 s have passed without such a reading, and the
\* call then returns with the system clock not set, as it does after every
\* failure
C20_ClockBestEffort ==
    /\ pc # "panic"
    /\ hw.clock.set
         => /\ rtc.result = "set"
            /\ hw.clock.sec = rtc.hc_now
            /\ tm_sec(rtc.hc_now) # tm_sec(rtc.hc_start)
    /\ pc = "rtc_poll" => rtc.elapsed <= RTC_TIMEOUT
    /\ rtc.result = "stuck"
         => /\ pc = "rtc_returned"
            /\ rtc.elapsed > RTC_TIMEOUT
            /\ tm_sec(rtc.hc_now) = tm_sec(rtc.hc_start)
    /\ pc = "rtc_returned" /\ rtc.result # "set" => ~hw.clock.set

\* the clock is stuck and the call returns after the timeout
C20_Witness ==
    /\ pc = "rtc_returned"
    /\ rtc.result = "stuck"
    /\ rtc.elapsed = RTC_TIMEOUT + 1
    /\ ~hw.clock.set


(***************************************************************************)
(* configure_ethernet on its own                                           *)
(***************************************************************************)
\* a record of 0x20191231 whose ethernet_config does not begin with 0xA5
RecordPlain ==
    GoodImage(1, DataV1(<<49, 18, 25, 32>>, SampleUid, SampleHostname, <<90, 107, 57>>,
                        [i \in 1 .. ETHERNET_CONFIG_LENGTH |-> (3 * i) % 256]))

\* what the chip's store may hold at boot: erased, a configuration, the
\* sample configuration with another first byte
Stores ==
    {[i \in 1 .. ETHERNET_CONFIG_LENGTH |-> 255], SampleEthernet,
     [SampleEthernet EXCEPT ![1] = 0]}

InitEth ==
    /\ fs = [p \in Paths |-> NoFile]
    /\ pc = "idle"
    /\ upd = UpdIdle
    /\ \E valid \in BOOLEAN, record \in {Record1, RecordPlain, GoodImage(0, SampleData)} :
         /\ eeprom_valid = valid
         /\ eeprom = SubSeq(record, 1, EEPROM_SIZE)
    /\ rp = RpIdle
    /\ inp = NoInput
    /\ rom = <<>>
    /\ img = NoImage
    /\ rd = RdIdle
    /\ mnt = MntIdle
    /\ \E store \in Stores : hw = [HwIdle EXCEPT !.store = store]
    /\ rtc = RtcIdle
    /\ eth = EthIdle
    /\ mn = MainIdle

NextEth == EthCall \/ EthLookup \/ EthFirst \/ EthWrite \/ EthValidate

SpecEth == InitEth /\ [][NextEth]_vars

\* the commands sent to the chip in the current call of configure_ethernet
Sent == SubSeq(hw.cmds, eth.before + 1, Len(hw.cmds))

\* C19: when configure_ethernet returns with a valid record, either the
\* first byte of the chip's store was 0xA5 and no write command was sent,
\* or the 256 bytes read back after the write equal the record's
\* ethernet_config; a read-back that differs ends in panic
C19_EthernetVerified ==
    /\ pc = "eth_returned" /\ eeprom_valid /\ data_version(eeprom) >= 1
         => \/ /\ eth.result = "already"
               /\ hw.store[1] = 165
               /\ Sent = <<"get1">>
            \/ /\ eth.result = "configured"
               /\ Sent = <<"get1", "set", "get256">>
               /\ eth.data = ethernet_config(eeprom)
    /\ eth.result = "mismatch" => pc = "panic"
    /\ Sent = <<"get1", "set", "get256">> /\ eth.data # ethernet_config(eeprom)
         => pc = "panic"

\* the chip keeps the last byte wrong and the read-back is caught
C19_Witness ==
    /\ pc = "panic"
    /\ eth.result = "mismatch"
    /\ hw.cmds = <<"get1", "set", "get256">>
    /\ eth.data # ethernet_config(eeprom)
    /\ SubSeq(eth.data, 1, 255) = SubSeq(ethernet_config(eeprom), 1, 255)

\* C26 as stated: when configure_ethernet is called again after a call that
\* wrote the record's configuration and read it back equal, with the same
\* valid record, whatever the configuration holds, the chip is found
\* configured and no write command is sent.
C26_Original ==
    (eth.runs = 2 /\ SubSeq(hw.cmds, 1, eth.before) = <<"get1", "set", "get256">>)
        => /\ \A k \in 1 .. Len(Sent) : Sent[k] # "set"
           /\ pc = "eth_returned" => eth.result = "already"


(***************************************************************************)
(* read_cmdline and the defaults of main                                   *)
(***************************************************************************)
\* mutant of CmdDelims: only the space separates options
CmdDelimsSpace == {32}

\* the delimiters of strtok: "\r\n\t "
CmdDelims == {13, 10, 9, 32}

\* "root=", "rootfstype=", "init="
KEY_ROOT == <<114, 111, 111, 116, 61>>
KEY_ROOTFSTYPE == <<114, 111, 111, 116, 102, 115, 116, 121, 112, 101, 61>>
KEY_INIT == <<105, 110, 105, 116, 61>>

\* "/dev/mmcblk0p2", "ext4", "/sbin/init"
DEFAULT_ROOT == <<47, 100, 101, 118, 47, 109, 109, 99, 98, 108, 107, 48, 112, 50>>
DEFAULT_ROOTFSTYPE == <<101, 120, 116, 52>>
DEFAULT_INIT == <<47, 115, 98, 105, 110, 47, 105, 110, 105, 116>>

\* the body of the while loop: what one option sets
ParseOption(found, option) ==
    IF Strncmp0(option, 1, KEY_ROOT)
    THEN [found EXCEPT !.root = SubSeq(option, Len(KEY_ROOT) + 1, Len(option))]
    ELSE IF Strncmp0(option, 1, KEY_ROOTFSTYPE)
    THEN [found EXCEPT !.rootfstype = SubSeq(option, Len(KEY_ROOTFSTYPE) + 1, Len(option))]
    ELSE IF Strncmp0(option, 1, KEY_INIT)
    THEN [found EXCEPT !.init = SubSeq(option, Len(KEY_INIT) + 1, Len(option))]
    ELSE found

\* the length of the C string in buffer once buffer[length] = '\0' is set:
\* the bytes before the first NUL
CmdLength(buffer) ==
    IF \A i \in 1 .. Len(buffer) : buffer[i] # 0 THEN Len(buffer)
    ELSE Least({i \in 1 .. Len(buffer) : buffer[i] = 0}) - 1

\* strtok from position from on, and the loop over the options it yields;
\* the string ends at its first NUL
RECURSIVE ParseOptions(_, _, _)
ParseOptions(buffer, from, found) ==
    LET starts == {i \in from .. CmdLength(buffer) : buffer[i] \notin CmdDelims}
    IN IF starts = {} THEN found
       ELSE LET begin == Least(starts)
                stops == {i \in begin .. CmdLength(buffer) : buffer[i] \in CmdDelims}
                end == IF stops = {} THEN CmdLength(buffer) ELSE Least(stops) - 1
            IN ParseOptions(buffer, end + 2,
                            ParseOption(found, SubSeq(buffer, begin, end)))

\* read_cmdline on the content of /proc/cmdline, of which it reads at most
\* sizeof(buffer) - 1 bytes
read_cmdline(cmdline) ==
    ParseOptions(Prefix(cmdline, 2047), 1,
                 [root |-> NULL, rootfstype |-> NULL, init |-> NULL])

\* main: read_cmdline(&root, &rootfstype, &init) and the three defaults
MainReadCmdline ==
    /\ pc = "idle"
    /\ mn.at = "read_cmdline"
    /\ \E io \in {"ok", "open_err", "read_err"} :
         IF io # "ok"
         THEN /\ mn' = [mn EXCEPT !.trace = Append(@, "read_cmdline"),
                                  !.failed = @ \cup {"read_cmdline"}]
              /\ pc' = "panic"
         ELSE /\ mn' = [mn EXCEPT
                     !.trace = Append(@, "read_cmdline"),
                     !.at = "mount_sys",
                     !.root = IF read_cmdline(mn.cmdline).root = NULL
                              THEN DEFAULT_ROOT ELSE read_cmdline(mn.cmdline).root,
                     !.rootfstype = IF read_cmdline(mn.cmdline).rootfstype = NULL
                                    THEN DEFAULT_ROOTFSTYPE
                                    ELSE read_cmdline(mn.cmdline).rootfstype,
                     !.init = IF read_cmdline(mn.cmdline).init = NULL
                              THEN DEFAULT_INIT ELSE read_cmdline(mn.cmdline).init]
              /\ pc' = "idle"
    /\ UNCHANGED notMain

\* options a command line may hold: root=/dev/sda1, rootfstype=btrfs,
\* init=/bin/sh, quiet, xroot=/dev/x, root= (empty value), rootfstype,
\* Init=/x, and "quiet" joined to root=/dev/sdb by a vertical tab
Options ==
    {<<114, 111, 111, 116, 61, 47, 100, 101, 118, 47, 115, 100, 97, 49>>,
     <<114, 111, 111, 116, 102, 115, 116, 121, 112, 101, 61, 98, 116, 114, 102, 115>>,
     <<105, 110, 105, 116, 61, 47, 98, 105, 110, 47, 115, 104>>,
     <<113, 117, 105, 101, 116>>,
     <<120, 114, 111, 111, 116, 61, 47, 100, 101, 118, 47, 120>>,
     <<114, 111, 111, 116, 61>>,
     <<114, 111, 111, 116, 102, 115, 116, 121, 112, 101>>,
     <<73, 110, 105, 116, 61, 47, 120>>,
     <<113, 117, 105, 101, 116, 11, 114, 111, 111, 116, 61, 47, 100, 101, 118, 47, 115, 100, 98>>}

\* command lines: none, one or two options, separated and ended by white
\* space of the kinds the kernel and boot loaders leave
CmdLines ==
    {a \o sep \o c \o end :
        a \in Options \cup {<<>>}, c \in Options \cup {<<>>},
        sep \in {<<32>>, <<9>>, <<32, 32>>, <<13, 10>>}, end \in {<<>>, <<10>>}}

InitCmd ==
    /\ fs = [p \in Paths |-> NoFile]
    /\ pc = "idle"
    /\ upd = UpdIdle
    /\ eeprom = Zeros(EEPROM_SIZE)
    /\ eeprom_valid = FALSE
    /\ rp = RpIdle
    /\ inp = NoInput
    /\ rom = <<>>
    /\ img = NoImage
    /\ rd = RdIdle
    /\ mnt = MntIdle
    /\ hw = HwIdle
    /\ rtc = RtcIdle
    /\ eth = EthIdle
    /\ \E cmdline \in CmdLines :
         mn = [MainIdle EXCEPT !.at = "read_cmdline", !.cmdline = cmdline]

NextCmd == MainReadCmdline

SpecCmd == InitCmd /\ [][NextCmd]_vars

\* the options of a command line: its longest runs of bytes other than
\* space, tab, new-line and carriage return, as pairs of first and last
\* position
OptionsOf(cmdline) ==
    {r \in (1 .. Len(cmdline)) \X (1 .. Len(cmdline)) :
        /\ r[1] <= r[2]
        /\ \A i \in r[1] .. r[2] : cmdline[i] \notin {9, 10, 13, 32}
        /\ r[1] = 1 \/ cmdline[r[1] - 1] \in {9, 10, 13, 32}
        /\ r[2] = Len(cmdline) \/ cmdline[r[2] + 1] \in {9, 10, 13, 32}}

\* the value the options give to a key: what follows the key in the last
\* option that begins with it, and the default when there is none
ValueOf(cmdline, key, default) ==
    LET with == {r \in OptionsOf(cmdline) :
                    /\ r[2] - r[1] + 1 >= Len(key)
                    /\ SubSeq(cmdline, r[1], r[1] + Len(key) - 1) = key}
    IN IF with = {} THEN default
       ELSE LET last == CHOOSE r \in with : \A q \in with : q[1] <= r[1]
            IN SubSeq(cmdline, last[1] + Len(key), last[2])

\* C14: after read_cmdline and the defaults, root, rootfstype and init are
\* the values of the root=, rootfstype= and init= options of the command
\* line where there is such an option, and /dev/mmcblk0p2, ext4 and
\* /sbin/init where there is none; no other option has a part in them
C14_BootParameters ==
    mn.at = "mount_sys"
       => /\ mn.root = ValueOf(mn.cmdline, KEY_ROOT, DEFAULT_ROOT)
          /\ mn.rootfstype = ValueOf(mn.cmdline, KEY_ROOTFSTYPE, DEFAULT_ROOTFSTYPE)
          /\ mn.init = ValueOf(mn.cmdline, KEY_INIT, DEFAULT_INIT)

\* "rootfstype=btrfs<TAB>xroot=/dev/x": one value from its option, two
\* defaults, and an option with another key ignored
C14_Witness ==
    /\ mn.at = "mount_sys"
    /\ mn.cmdline = <<114, 111, 111, 116, 102, 115, 116, 121, 112, 101, 61, 98, 116, 114,
                      102, 115, 9, 120, 114, 111, 111, 116, 61, 47, 100, 101, 118, 47, 120>>
    /\ mn.root = DEFAULT_ROOT
    /\ mn.rootfstype = <<98, 116, 114, 102, 115>>
    /\ mn.init = DEFAULT_INIT


(***************************************************************************)
(* panic                                                                   *)
(***************************************************************************)
\* the positions of the program inside panic
PanicPcs == {"panic", "panic_reboot", "parked"}

\* the message, mkdir and mount of /proc (their failures are only logged),
\* and the 60 seconds of sleep
PanicWait ==
    /\ pc = "panic"
    /\ pc' = "panic_reboot"
    /\ UNCHANGED <<mn, notMain>>

\* "b\n" is written to /proc/sysrq-trigger, or the failure to is logged
PanicReboot ==
    /\ pc = "panic_reboot"
    /\ \E io \in {"ok", "fopen_err", "fwrite_err"} :
         mn' = [mn EXCEPT !.reboot = IF io = "ok" THEN "requested" ELSE io]
    /\ pc' = "parked"
    /\ UNCHANGED notMain

\* mutant of ParkLoop: the loop ends
ParkLoopEnds == FALSE

\* while (true)
ParkLoop == TRUE

\* sleep(1000), again and again; "left" stands for control leaving panic
PanicPark ==
    /\ pc = "parked"
    /\ pc' = IF ParkLoop THEN "parked" ELSE "left"
    /\ UNCHANGED <<mn, notMain>>

(***************************************************************************)
(* main                                                                    *)
(***************************************************************************)
\* mutant of MainOrder: the root is changed before the new root is moved
MainOrderChrootFirst ==
    <<"mount_proc", "read_cmdline", "mount_sys", "mount_dev", "robust_mount",
      "mount_mnt_dev", "modprobe_i2c_bcm2835", "modprobe_rtc_pcf8523", "rtc_hctosys",
      "modprobe_i2c_dev", "read_eeprom", "replace_password", "configure_ethernet",
      "identity", "update_date", "update_uid", "update_hostname",
      "umount_proc", "umount_sys", "umount_dev", "chdir_mnt", "unlink_init",
      "chroot", "move_mount", "chdir_root", "execv", "end">>

\* the statements of main, in the order of the text
MainOrder ==
    <<"mount_proc", "read_cmdline", "mount_sys", "mount_dev", "robust_mount",
      "mount_mnt_dev", "modprobe_i2c_bcm2835", "modprobe_rtc_pcf8523", "rtc_hctosys",
      "modprobe_i2c_dev", "read_eeprom", "replace_password", "configure_ethernet",
      "identity", "update_date", "update_uid", "update_hostname",
      "umount_proc", "umount_sys", "umount_dev", "chdir_mnt", "unlink_init",
      "move_mount", "chroot", "chdir_root", "execv", "end">>

\* the statement after one
After(step) == MainOrder[1 + CHOOSE k \in 1 .. Len(MainOrder) : MainOrder[k] = step]

\* mutant of Fatal: a failed step makes main return EXIT_FAILURE
FatalReturns == "exited"

\* panic(...): where a step of main that failed goes
Fatal == "panic"

\* a system call of main with the result ok; when checked, its failure is
\* followed by panic
MainSyscall(steps, checked) ==
    /\ pc = "idle"
    /\ mn.at \in steps
    /\ \E ok \in BOOLEAN :
         /\ mn' = [mn EXCEPT !.trace = Append(@, mn.at),
                             !.failed = IF ok THEN @ ELSE @ \cup {mn.at},
                             !.at = IF ok \/ ~checked THEN After(@) ELSE @]
         /\ pc' = IF ok \/ ~checked THEN "idle" ELSE Fatal
    /\ UNCHANGED notMain

\* mount of /proc, /sys, /dev (and the usleep after it) and /mnt/dev
MainMount == MainSyscall({"mount_proc", "mount_sys", "mount_dev", "mount_mnt_dev"}, TRUE)

\* modprobe(name), which ends in panic when the module cannot be loaded
MainModprobe ==
    MainSyscall({"modprobe_i2c_bcm2835", "modprobe_rtc_pcf8523", "modprobe_i2c_dev"}, TRUE)

\* umount of /proc, /sys and /dev
MainUmount == MainSyscall({"umount_proc", "umount_sys", "umount_dev"}, TRUE)

\* chdir("/mnt"), mount(".", "/", MS_MOVE), chroot("."), chdir("/")
MainSwitchRoot == MainSyscall({"chdir_mnt", "move_mount", "chroot", "chdir_root"}, TRUE)

\* unlink("/init"), whose result is not looked at
MainUnlink == MainSyscall({"unlink_init"}, FALSE)

\* execv(init): the process image is replaced, or panic
MainExecv ==
    /\ pc = "idle"
    /\ mn.at = "execv"
    /\ \E ok \in BOOLEAN :
         /\ mn' = [mn EXCEPT !.trace = Append(@, mn.at),
                             !.failed = IF ok THEN @ ELSE @ \cup {mn.at}]
         /\ pc' = IF ok THEN "exec" ELSE Fatal
    /\ UNCHANGED notMain

\* mutant of RecordUsable: the files are written whatever the record
RecordUsableAlways(valid, e) == TRUE

\* !(!eeprom_valid || eeprom.header.data_version < 1)
RecordUsable(valid, e) == valid /\ data_version(e) >= 1

\* the test before the /mnt/etc/tng-base-* files
MainIdentity ==
    /\ pc = "idle"
    /\ mn.at = "identity"
    /\ mn' = [mn EXCEPT !.trace = Append(@, mn.at),
                        !.at = IF RecordUsable(eeprom_valid, eeprom)
                               THEN "update_date" ELSE "umount_proc"]
    /\ pc' = "idle"
    /\ UNCHANGED notMain

\* "%X" of a digit and "%02X" of a byte
HexDigit(n) == IF n < 10 THEN 48 + n ELSE 55 + n
HexByte(byte) == <<HexDigit(byte \div 16), HexDigit(byte % 16)>>

\* mutant of IdentityText: the texts lack the new-line
IdentityTextBare(step, e) ==
    CStr(Field(e, IF step = "update_uid" THEN OFF_UID ELSE OFF_HOSTNAME, UID_SIZE))

\* the three snprintf of main: "%04X-%02X-%02X\n" of production_date (its
\* bytes lie least significant first), "%s\n" of uid and of hostname
IdentityText(step, e) ==
    CASE step = "update_date" ->
           HexByte(e[OFF_DATE + 4]) \o HexByte(e[OFF_DATE + 3]) \o <<45>>
             \o HexByte(e[OFF_DATE + 2]) \o <<45>> \o HexByte(e[OFF_DATE + 1])
             \o <<NEWLINE>>
      [] step = "update_uid" -> CStr(Field(e, OFF_UID, UID_SIZE)) \o <<NEWLINE>>
      [] step = "update_hostname" ->
           CStr(Field(e, OFF_HOSTNAME, HOSTNAME_SIZE)) \o <<NEWLINE>>

\* the path each of the three update_file calls names
IdentityPath(step) ==
    CASE step = "update_date" -> "/mnt/etc/tng-base-production-date"
      [] step = "update_uid" -> UID_PATH
      [] step = "update_hostname" -> "/mnt/etc/tng-base-hostname"

\* update_file(path, buffer, strlen(buffer)) is called
MainUpdateFile ==
    /\ mn.at \in {"update_date", "update_uid", "update_hostname"}
    /\ upd.returned = 0
    /\ UpdateFileCall(IdentityPath(mn.at), IdentityText(mn.at, eeprom))

\* a function called by main returns: its frame is gone, main goes on
MainReturn ==
    /\ \/ pc = "mnt_returned" /\ mn.at = "robust_mount"
       \/ pc = "rtc_returned" /\ mn.at = "rtc_hctosys"
       \/ pc = "re_returned" /\ mn.at = "read_eeprom"
       \/ pc = "rp_returned" /\ mn.at = "replace_password"
       \/ pc = "eth_returned" /\ mn.at = "configure_ethernet"
       \/ pc = "idle" /\ upd.returned > 0
            /\ mn.at \in {"update_date", "update_uid", "update_hostname"}
    /\ pc' = "idle"
    /\ mn' = [mn EXCEPT !.trace = Append(@, mn.at), !.at = After(@)]
    /\ upd' = UpdIdle
    /\ rp' = RpIdle
    /\ rd' = RdIdle
    /\ mnt' = MntIdle
    /\ rtc' = RtcIdle
    /\ eth' = EthIdle
    /\ UNCHANGED <<fs, eeprom, eeprom_valid, inp, rom, img, hw>>

\* the command line "root=/dev/sda1 init=/bin/sh"
SampleCmdline ==
    <<114, 111, 111, 116, 61, 47, 100, 101, 118, 47, 115, 100, 97, 49, 32,
      105, 110, 105, 116, 61, 47, 98, 105, 110, 47, 115, 104>>

\* what main may find: a chip with a record or an erased one, a password
\* database with the default or with another password for the account, an
\* erased or a configured Ethernet chip, an empty or a telling command line
InitMain ==
    /\ \E i \in {j \in ShadowInputs : /\ j.kind \in {"default", "custom"}
                                      /\ j.pre = <<>>
                                      /\ j.rest = RestOfLine
                                      /\ SubSeq(j.field, 2, 4) = <<DOLLAR, 54, DOLLAR>>
                                      /\ j.field[5] # 114},
          chip \in {Record1, RecordPlain, <<>>},
          store \in {SampleEthernet, [k \in 1 .. ETHERNET_CONFIG_LENGTH |-> 255]},
          cmdline \in {<<>>, SampleCmdline} :
         /\ inp = [kind |-> i.kind, pre |-> i.pre, field |-> i.field,
                   rest |-> i.rest, backup |-> NoFile, password |-> <<>>,
                   lib |-> Plain]
         /\ rom = chip
         /\ hw = [HwIdle EXCEPT !.hc = 58, !.store = store]
         /\ mn = [MainIdle EXCEPT !.at = "mount_proc", !.cmdline = cmdline]
    /\ fs = ShadowFs0(inp)
    /\ pc = "idle"
    /\ upd = UpdIdle
    /\ eeprom = Zeros(EEPROM_SIZE)
    /\ eeprom_valid = FALSE
    /\ rp = RpIdle
    /\ img = NoImage
    /\ rd = RdIdle
    /\ mnt = MntIdle
    /\ rtc = RtcIdle
    /\ eth = EthIdle

NextMain ==
    \/ MainMount \/ MainReadCmdline \/ MainModprobe \/ MainIdentity
    \/ MainUmount \/ MainSwitchRoot \/ MainUnlink \/ MainExecv
    \/ MainUpdateFile \/ MainReturn
    \/ mn.at = "robust_mount" /\ RobustMountCall(mn.root, mn.rootfstype)
    \/ mn.at = "rtc_hctosys" /\ RtcCall
    \/ mn.at = "read_eeprom" /\ pc = "idle" /\ ReadEepromCall
    \/ mn.at = "replace_password" /\ pc = "idle" /\ ReplacePasswordCall
    \/ mn.at = "configure_ethernet" /\ pc = "idle" /\ EthCall
    \/ MntNewContext \/ MntSetup \/ MntMount \/ MntSleep
    \/ RtcOpen \/ RtcPoll \/ RtcSet
    \/ ReOpen \/ ReHeader \/ ReData \/ ReCheck
    \/ RpOpen \/ RpFind \/ RpBackupCreate \/ RpBackupWrite \/ RpBackupFsync
    \/ RpTmpCreate \/ RpTmpWrite \/ RpTmpFsync \/ RpRename
    \/ EthLookup \/ EthFirst \/ EthWrite \/ EthValidate
    \/ UpdateFileCheck \/ UpdateFileCreate \/ UpdateFileWrite
    \/ UpdateFileFsync \/ UpdateFileRename
    \/ PanicWait \/ PanicReboot \/ PanicPark

SpecMain == InitMain /\ [][NextMain]_vars

\* every step that can be taken is taken in the end
SpecMainLive == SpecMain /\ WF_vars(NextMain)


(***************************************************************************)
(* Claims about panic and main                                             *)
(***************************************************************************)
\* C11: once panic is entered the program stays in it: it never is back in
\* a caller, no file, no record, no clock, no Ethernet chip and no step of
\* main changes any more, and whether the reboot could be asked for or not
\* the program ends up parked and stays parked.
C11_PanicDivergent ==
    /\ [][(pc \in PanicPcs)
            => /\ pc' \in PanicPcs
               /\ UNCHANGED <<fs, eeprom, eeprom_valid, hw, upd, rp, rd, mnt, rtc, eth>>
               /\ mn'.at = mn.at
               /\ mn'.trace = mn.trace ]_vars
    /\ (pc = "panic" ~> [](pc = "parked"))

\* C11 witness: the program is parked although the reboot could not be asked
\* for, after a step of main failed
C11_Witness ==
    /\ pc = "parked"
    /\ mn.reboot = "fopen_err"
    /\ mn.failed # {}

\* C12: main never returns, and every execution reaches the exec of init or
\* panic (the root device being found after MaxRetries attempts at the most).
C12_ExecOrEscalate ==
    /\ [](pc \notin {"exited", "left"})
    /\ <>(pc = "exec" \/ pc \in PanicPcs)

\* C12 witness: init was exec'ed at the end of a boot that set the clock,
\* read a valid record and ignored a failed unlink
C12_Witness ==
    /\ pc = "exec"
    /\ hw.clock.set
    /\ eeprom_valid
    /\ mn.failed = {"unlink_init"}


\* the steps of the root switch, as the claims name them
RootSwitchOrder ==
    <<"umount_proc", "umount_sys", "umount_dev", "chdir_mnt", "unlink_init",
      "move_mount", "chroot", "chdir_root", "execv">>

\* the steps of main whose turn it is, or was, once the record has been read
AfterRead ==
    {"replace_password", "configure_ethernet", "identity", "update_date",
     "update_uid", "update_hostname"} \cup {RootSwitchOrder[k] : k \in 1 .. 9}

\* C13: with no valid record after read_eeprom, replace_password,
\* configure_ethernet and the identity files are passed without a change to
\* any file, without a write to the Ethernet chip and without panic (the
\* program is in none of them but at their call and return), and main goes
\* from them to the first unmount.
C13_InvalidRecordSkips ==
    (~eeprom_valid /\ mn.at \in AfterRead) =>
        /\ fs = ShadowFs0(inp)
        /\ \A k \in 1 .. Len(hw.cmds) : hw.cmds[k] # "set"
        /\ mn.at \notin {"update_date", "update_uid", "update_hostname"}
        /\ \A k \in 1 .. Len(mn.trace) :
             mn.trace[k] \notin {"update_date", "update_uid", "update_hostname"}
        /\ mn.at \in {"replace_password", "configure_ethernet", "identity"}
             => pc \in {"idle", "rp_returned", "eth_returned"}

\* C13 witness: the chip held no record, and main is at the first unmount
\* with the three steps behind it
C13_Witness ==
    /\ ~eeprom_valid
    /\ pc = "idle"
    /\ mn.at = "umount_proc"
    /\ Len(mn.trace) >= 3
    /\ SubSeq(mn.trace, Len(mn.trace) - 2, Len(mn.trace))
         = <<"replace_password", "configure_ethernet", "identity">>

\* the two decimal digits of a packed-BCD byte
Bcd(byte) == <<48 + (byte \div 16), 48 + (byte % 16)>>

\* C15: with a valid record (of version 1 or later), once main is at the root
\* switch the production-date file holds YYYY-MM-DD of the packed-BCD date,
\* the uid file the uid and the hostname file the hostname, each followed by
\* one new-line and nothing else, and each is a regular file of mode 0444
\* owned by 0:0.
C15_IdentityFiles ==
    (/\ eeprom_valid
     /\ data_version(eeprom) >= 1
     /\ \E k \in 1 .. 9 : mn.at = RootSwitchOrder[k]) =>
        /\ Visible(fs["/mnt/etc/tng-base-production-date"])
             = RegFile(S_IFREG + MODE_0444, 0, 0,
                       Bcd(eeprom[OFF_DATE + 4]) \o Bcd(eeprom[OFF_DATE + 3]) \o <<45>>
                         \o Bcd(eeprom[OFF_DATE + 2]) \o <<45>>
                         \o Bcd(eeprom[OFF_DATE + 1]) \o <<10>>)
        /\ Visible(fs["/mnt/etc/tng-base-uid"])
             = RegFile(S_IFREG + MODE_0444, 0, 0,
                       CStr(Field(eeprom, OFF_UID, UID_SIZE)) \o <<10>>)
        /\ Visible(fs["/mnt/etc/tng-base-hostname"])
             = RegFile(S_IFREG + MODE_0444, 0, 0,
                       CStr(Field(eeprom, OFF_HOSTNAME, HOSTNAME_SIZE)) \o <<10>>)

\* C15 witness: init is exec'ed with "2019-12-31\n" in the date file and
\* "AB1234\n" in the uid file
C15_Witness ==
    /\ pc = "exec"
    /\ eeprom_valid
    /\ fs["/mnt/etc/tng-base-production-date"].data = <<50, 48, 49, 57, 45, 49, 50, 45, 51, 49, 10>>
    /\ fs["/mnt/etc/tng-base-uid"].data = <<65, 66, 49, 50, 51, 52, 10>>
    /\ fs["/mnt/etc/tng-base-uid"].mode = S_IFREG + MODE_0444

\* the called functions are at rest
CalleesIdle ==
    /\ upd = UpdIdle
    /\ rp = RpIdle
    /\ rd = RdIdle
    /\ mnt = MntIdle
    /\ rtc = RtcIdle
    /\ eth = EthIdle

\* C16: the steps of the root switch are taken in the order of
\* RootSwitchOrder, one after the other: what main has done of them is a
\* prefix of that order, at the exec it is the whole of it; and the first
\* unmount comes only when the clock, the record, the password, the Ethernet
\* chip and the identity files have been dealt with and none of them is still
\* at work.
C16_RootSwitchOrder ==
    /\ (\E k \in 1 .. 9 : mn.at = RootSwitchOrder[k]) =>
         /\ \E n \in 0 .. 9 :
              /\ Len(mn.trace) >= n + 5
              /\ SubSeq(mn.trace, Len(mn.trace) - n + 1, Len(mn.trace))
                   = SubSeq(RootSwitchOrder, 1, n)
              /\ \/ pc = "idle" /\ n < 9 /\ mn.at = RootSwitchOrder[n + 1]
                 \/ pc = "exec" /\ n = 9
                 \/ pc \in PanicPcs /\ n >= 1 /\ mn.at = RootSwitchOrder[n]
              /\ \A k \in 1 .. Len(mn.trace) - n : \A j \in 1 .. 9 :
                   mn.trace[k] # RootSwitchOrder[j]
              /\ {"rtc_hctosys", "read_eeprom", "replace_password",
                  "configure_ethernet", "identity"}
                   \subseteq {mn.trace[k] : k \in 1 .. Len(mn.trace) - n}
         /\ CalleesIdle
    /\ pc = "exec" =>
         /\ mn.at = "execv"
         /\ SubSeq(mn.trace, Len(mn.trace) - 8, Len(mn.trace)) = RootSwitchOrder

\* C16 witness: init is exec'ed after the identity files were written
C16_Witness ==
    /\ pc = "exec"
    /\ Len(mn.trace) = 26
    /\ mn.trace[17] = "update_hostname"
    /\ mn.failed = {}

\* C17 as stated: when a step of the root switch has failed the program is
\* in panic and that step is the last one taken.
C17_Original ==
    (mn.failed \cap {RootSwitchOrder[k] : k \in 1 .. 9} # {}) =>
        /\ pc \in PanicPcs
        /\ mn.trace[Len(mn.trace)] \in mn.failed

=============================================================================
